---- MODULE Spec2Model ----
(***************************************************************************)
(* Parking-lot multi-agent routing core: grid, reservation table,          *)
(* time-expanded A*, parking manager and the simulation tick.              *)
(*                                                                         *)
(* Three specifications share the module:                                  *)
(*   Spec         the SimulationCore: construction followed by step()s     *)
(*   SpecTable    the ReservationTable methods called on one table         *)
(*   SpecPlanner  single_agent_a_star applied to a table and a query drawn *)
(*                from bounded sets                                        *)
(***************************************************************************)
EXTENDS Integers, Sequences, FiniteSets, TLC

VARIABLES
    sim,            \* SimulationCore fields
    pm,             \* ParkingManager fields
    rt,             \* ReservationTable fields
    cars,           \* car_id -> Car object fields
    config,         \* SimulationConfig
    prev_positions, \* history: get_positions_snapshot() before the last operation
    plan_calls,     \* history: single_agent_a_star calls of the last operation
    op              \* history: the last operation and its arguments

vars == <<sim, pm, rt, cars, config, prev_positions, plan_calls, op>>

-----------------------------------------------------------------------------
(* Bounds of the model *)

MaxTime == 5            \* step() is taken while sim.time < MaxTime
MaxArriving == 2        \* largest config.max_arriving_cars
MaxInitialActive == 2   \* largest config.initial_active_cars
MaxInitialParked == 1   \* largest config.initial_parked_cars
PlanningHorizon == 4    \* config.planning_horizon
MaxStartTime == 1       \* SpecPlanner: largest start_time of a query
MaxPersistence == 2     \* SpecPlanner: largest obstacle_persistence of a query
MaxPathLen == 2         \* SpecTable: longest path handed to reserve_path
MaxReserved == 3        \* SpecTable: most vertex and most edge entries held by the table
MaxStatic == 1          \* SpecTable: most cells held by reserve_goal
MaxCars == 3            \* SpecResolve: cars in one conflict resolution
MaxCrowdedTime == 8     \* SpecLong: step() is taken while sim.time < MaxCrowdedTime
MaxStuckTime == 13      \* SpecStuck: step() is taken while sim.time < MaxStuckTime
MaxBlockedTime == 3     \* SpecBlocked: step() is taken while sim.time < MaxBlockedTime
MaxBlockedBefore == 12  \* SpecBlocked: blocked_count of a car before it is blocked once more
MaxFullArriving == 3    \* SpecFull: config.max_arriving_cars, one more than the lot can take
MaxFullTime == 7        \* SpecFull: step() is taken while sim.time < MaxFullTime

(* Program constants *)

PersistenceMin == 10        \* random.randint(10, 30)
PersistenceMax == 30
DefaultPersistence == 20    \* plan_for_car(obstacle_persistence=20)
CheckHorizon == 20          \* _get_free_entry check_horizon

-----------------------------------------------------------------------------
(* Values *)

None == <<>>        \* Python None where a Position or a path is expected

Abs(n) == IF n < 0 THEN -n ELSE n

manhattan(a, b) == Abs(a[1] - b[1]) + Abs(a[2] - b[2])

\* dict[k] = v
Put(f, k, v) == [x \in (DOMAIN f) \cup {k} |-> IF x = k THEN v ELSE f[x]]

\* dict.pop(k, None) / del dict[k]
Drop(f, k) == [x \in (DOMAIN f) \ {k} |-> f[x]]

\* the members of a finite set of integers in ascending order
RECURSIVE Ascending(_)
Ascending(S) ==
    IF S = {} THEN <<>>
    ELSE LET m == CHOOSE x \in S : \A y \in S : x <= y
         IN <<m>> \o Ascending(S \ {m})

Range(s) == {s[i] : i \in 1..Len(s)}

-----------------------------------------------------------------------------
(* generator/cell.py, generator/grid.py *)

\* Grid.cells[x][y].type, column by column (x major), as Grid stores it
Cells ==
    << <<"PARKING", "WALL">>,
       <<"PARKING", "ENTRY">>,
       <<"PARKING", "ROAD">>,
       <<"EXIT", "ENTRY">> >>

Width == Len(Cells)
Height == Len(Cells[1])
Area == Width * Height

in_bounds(x, y) == 0 <= x /\ x < Width /\ 0 <= y /\ y < Height

CellType(x, y) == Cells[x + 1][y + 1]

is_drivable(kind) == kind \in {"ROAD", "PARKING", "ENTRY", "EXIT"}

AllCells == {<<x, y>> : x \in 0..(Width - 1), y \in 0..(Height - 1)}

\* _extract_cells: the functional cells handed to the ParkingManager
CellsOfType(kind) == {c \in AllCells : CellType(c[1], c[2]) = kind}

parking_cells == CellsOfType("PARKING")
exit_cells == CellsOfType("EXIT")
entry_cells == CellsOfType("ENTRY")

is_exit_cell(pos) == CellType(pos[1], pos[2]) = "EXIT"

-----------------------------------------------------------------------------
(* planning/reservation_table.py; a table is [vertex, edge, static] *)

EmptyTable == [vertex_reservations |-> {}, edge_reservations |-> {}, static_cells |-> {}]

is_cell_free(tbl, x, y, t) ==
    /\ <<x, y>> \notin tbl.static_cells
    /\ <<x, y, t>> \notin tbl.vertex_reservations

is_edge_free(tbl, x1, y1, x2, y2, t) ==
    /\ <<x1, y1, x2, y2, t>> \notin tbl.edge_reservations
    /\ <<x2, y2, x1, y1, t>> \notin tbl.edge_reservations

\* the (x, y, t) entries of a path
PathVertices(path) == {path[i] : i \in 1..Len(path)}

\* the (px, py, x, y, pt) edges between consecutive entries of a path
PathEdges(path) ==
    {<<path[i - 1][1], path[i - 1][2], path[i][1], path[i][2], path[i - 1][3]>> :
        i \in 2..Len(path)}

reserve_path(tbl, path) ==
    [tbl EXCEPT !.vertex_reservations = @ \cup PathVertices(path),
                !.edge_reservations = @ \cup PathEdges(path)]

\* an unreserve_path that discards the vertices and leaves the edges
unreserve_vertices_only(tbl, path) ==
    [tbl EXCEPT !.vertex_reservations = @ \ PathVertices(path)]

unreserve_path(tbl, path) ==
    [tbl EXCEPT !.vertex_reservations = @ \ PathVertices(path),
                !.edge_reservations = @ \ PathEdges(path)]

\* start_time and horizon are ignored by the code
\* a reserve_goal that reserves nothing
reserve_goal_nowhere(tbl, x, y) == tbl

reserve_goal(tbl, x, y) == [tbl EXCEPT !.static_cells = @ \cup {<<x, y>>}]

\* an unreserve_goal that releases nothing
unreserve_goal_nothing(tbl, x, y) == tbl

unreserve_goal(tbl, x, y) == [tbl EXCEPT !.static_cells = @ \ {<<x, y>>}]

-----------------------------------------------------------------------------
(* planning/single_agent_planner.py *)

\* packed node key: t * area + x * height + y
PackKey(x, y, t) == t * Area + (x * Height + y)
KeyT(key) == key \div Area
KeyX(key) == (key % Area) \div Height
KeyY(key) == (key % Area) % Height

\* moves with a jump of two cells in place of the step to the right
MovesJump == << <<0, 1>>, <<0, -1>>, <<2, 0>>, <<-1, 0>>, <<0, 0>> >>

\* 4-dir + wait
Moves == << <<0, 1>>, <<0, -1>>, <<1, 0>>, <<-1, 0>>, <<0, 0>> >>

\* heapq order of the (f, g, key) tuples
HeapLess(a, b) ==
    \/ a[1] < b[1]
    \/ a[1] = b[1] /\ a[2] < b[2]
    \/ a[1] = b[1] /\ a[2] = b[2] /\ a[3] < b[3]

\* a push that puts the new entry at the head: the last pushed is popped first
heappush_front(open_set, e) == <<e>> \o open_set

\* the heap is kept as the sequence of its entries in heapq order:
\* heappop takes the head, heappush inserts in place
heappush(open_set, e) ==
    LET k == Cardinality({i \in 1..Len(open_set) : HeapLess(open_set[i], e)})
    IN SubSeq(open_set, 1, k) \o <<e>> \o SubSeq(open_set, k + 1, Len(open_set))

RECURSIVE ReconstructKeys(_, _)
ReconstructKeys(came_from, key) ==
    IF key \in DOMAIN came_from
    THEN Append(ReconstructKeys(came_from, came_from[key]), key)
    ELSE <<key>>

\* a reconstruction that leaves out the start node
ReconstructWithoutStart(came_from, goal_key) ==
    LET keys == Tail(ReconstructKeys(came_from, goal_key))
    IN [i \in 1..Len(keys) |-> <<KeyX(keys[i]), KeyY(keys[i]), KeyT(keys[i])>>]

_reconstruct_path_packed(came_from, goal_key) ==
    LET keys == ReconstructKeys(came_from, goal_key)
    IN [i \in 1..Len(keys) |-> <<KeyX(keys[i]), KeyY(keys[i]), KeyT(keys[i])>>]

\* the successor checks without the WALL check
AdmissibleThroughWall(q, x, y, t, nx, ny) ==
    LET nt == t + 1
        cell_type == CellType(nx, ny)
    IN /\ in_bounds(nx, ny)
       /\ ~(cell_type = "EXIT" /\ <<nx, ny>> # q.goal)
       /\ ~(cell_type = "ENTRY" /\ <<nx, ny>> # q.start /\ <<nx, ny>> # q.goal)
       /\ ~(<<nx, ny>> \in q.obstacles /\ nt < q.start_time + q.persistence)
       /\ ~(<<nx, ny>> \in q.table.static_cells
            \/ <<nx, ny, nt>> \in q.table.vertex_reservations)
       /\ ~(<<x, y, nx, ny, t>> \in q.table.edge_reservations
            \/ <<nx, ny, x, y, t>> \in q.table.edge_reservations)

\* the successor checks without the ENTRY check
AdmissibleThroughEntry(q, x, y, t, nx, ny) ==
    LET nt == t + 1
        cell_type == CellType(nx, ny)
    IN /\ in_bounds(nx, ny)
       /\ cell_type # "WALL"
       /\ ~(cell_type = "EXIT" /\ <<nx, ny>> # q.goal)
       /\ ~(<<nx, ny>> \in q.obstacles /\ nt < q.start_time + q.persistence)
       /\ ~(<<nx, ny>> \in q.table.static_cells
            \/ <<nx, ny, nt>> \in q.table.vertex_reservations)
       /\ ~(<<x, y, nx, ny, t>> \in q.table.edge_reservations
            \/ <<nx, ny, x, y, t>> \in q.table.edge_reservations)

\* the successor checks without the reservation-table checks
AdmissibleThroughReserved(q, x, y, t, nx, ny) ==
    LET nt == t + 1
        cell_type == CellType(nx, ny)
    IN /\ in_bounds(nx, ny)
       /\ cell_type # "WALL"
       /\ ~(cell_type = "EXIT" /\ <<nx, ny>> # q.goal)
       /\ ~(cell_type = "ENTRY" /\ <<nx, ny>> # q.start /\ <<nx, ny>> # q.goal)
       /\ ~(<<nx, ny>> \in q.obstacles /\ nt < q.start_time + q.persistence)

\* the successor checks with an ephemeral obstacle kept one tick longer
AdmissibleLateExpiry(q, x, y, t, nx, ny) ==
    LET nt == t + 1
        cell_type == CellType(nx, ny)
    IN /\ in_bounds(nx, ny)
       /\ cell_type # "WALL"
       /\ ~(cell_type = "EXIT" /\ <<nx, ny>> # q.goal)
       /\ ~(cell_type = "ENTRY" /\ <<nx, ny>> # q.start /\ <<nx, ny>> # q.goal)
       /\ ~(<<nx, ny>> \in q.obstacles /\ nt <= q.start_time + q.persistence)
       /\ ~(<<nx, ny>> \in q.table.static_cells
            \/ <<nx, ny, nt>> \in q.table.vertex_reservations)
       /\ ~(<<x, y, nx, ny, t>> \in q.table.edge_reservations
            \/ <<nx, ny, x, y, t>> \in q.table.edge_reservations)

\* the checks of the successor loop: q is the query, (x, y, t) the popped node
Admissible(q, x, y, t, nx, ny) ==
    LET nt == t + 1
        cell_type == CellType(nx, ny)
    IN /\ in_bounds(nx, ny)
       /\ cell_type # "WALL"
       /\ ~(cell_type = "EXIT" /\ <<nx, ny>> # q.goal)
       /\ ~(cell_type = "ENTRY" /\ <<nx, ny>> # q.start /\ <<nx, ny>> # q.goal)
       /\ ~(<<nx, ny>> \in q.obstacles /\ nt < q.start_time + q.persistence)
       /\ ~(<<nx, ny>> \in q.table.static_cells
            \/ <<nx, ny, nt>> \in q.table.vertex_reservations)
       /\ ~(<<x, y, nx, ny, t>> \in q.table.edge_reservations
            \/ <<nx, ny, x, y, t>> \in q.table.edge_reservations)

\* the loop "for dx, dy in moves" from move i on, for the popped node key with
\* cost g; s = [open_set, g_score, came_from]
RECURSIVE Expand(_, _, _, _, _)
Expand(q, key, g, i, s) ==
    IF i > Len(Moves) THEN s
    ELSE
      LET x == KeyX(key)
          y == KeyY(key)
          t == KeyT(key)
          nx == x + Moves[i][1]
          ny == y + Moves[i][2]
          neighbor_key == PackKey(nx, ny, t + 1)
          tentative_g == g + 1
      IN IF ~Admissible(q, x, y, t, nx, ny) THEN Expand(q, key, g, i + 1, s)
         ELSE IF neighbor_key \in DOMAIN s.g_score /\ tentative_g >= s.g_score[neighbor_key]
         THEN Expand(q, key, g, i + 1, s)
         ELSE Expand(q, key, g, i + 1,
                     [open_set |-> heappush(s.open_set,
                                            <<tentative_g + manhattan(<<nx, ny>>, q.goal),
                                              tentative_g, neighbor_key>>),
                      g_score |-> Put(s.g_score, neighbor_key, tentative_g),
                      came_from |-> Put(s.came_from, neighbor_key, key)])

\* the loop "while open_set"
RECURSIVE AStarLoop(_, _)
AStarLoop(q, s) ==
    IF Len(s.open_set) = 0 THEN None
    ELSE
      LET g == Head(s.open_set)[2]
          key == Head(s.open_set)[3]
          popped == [s EXCEPT !.open_set = Tail(@)]
      IN IF key \notin DOMAIN s.g_score \/ s.g_score[key] # g
         THEN AStarLoop(q, popped)
         ELSE IF <<KeyX(key), KeyY(key)>> = q.goal
         THEN _reconstruct_path_packed(s.came_from, key)
         ELSE IF KeyT(key) >= q.max_time THEN AStarLoop(q, popped)
         ELSE AStarLoop(q, Expand(q, key, g, 1, popped))

\* q = [start, start_time, goal, table, max_time, obstacles, persistence]
single_agent_a_star(q) ==
    IF ~in_bounds(q.start[1], q.start[2]) THEN None
    ELSE IF ~in_bounds(q.goal[1], q.goal[2]) THEN None
    ELSE IF ~is_drivable(CellType(q.start[1], q.start[2])) THEN None
    ELSE IF ~is_drivable(CellType(q.goal[1], q.goal[2])) THEN None
    ELSE IF q.start \in q.obstacles THEN None
    ELSE
      LET start_key == PackKey(q.start[1], q.start[2], q.start_time)
      IN AStarLoop(q, [open_set |-> << <<manhattan(q.start, q.goal), 0, start_key>> >>,
                       g_score |-> [k \in {start_key} |-> 0],
                       came_from |-> <<>>])

-----------------------------------------------------------------------------
(* agents/car.py; a Car is a record (priority, park_time, exit_time and start
   are never read by the core and are left out) *)

Car(car_id, start, intent) ==
    [car_id |-> car_id, position |-> start, intent |-> intent, goal |-> None,
     path |-> <<>>, current_step |-> 0, last_plan_fail_time |-> -1000,
     plan_fail_count |-> 0, blocked_count |-> 0, spawn_time |-> -1,
     is_initial |-> FALSE]

has_goal(car) == car.goal # None

has_path(car) == Len(car.path) > 0

is_finished(car) == car.current_step >= Len(car.path)

set_path(car, path) == [car EXCEPT !.path = path, !.current_step = 0]

clear_path(car) == [car EXCEPT !.path = <<>>, !.current_step = 0]

\* the fast-forward loop of step / peek_at_next_step: skip entries with t < target
RECURSIVE FastForward(_, _, _)
FastForward(path, idx, target_time) ==
    IF idx < Len(path) /\ path[idx + 1][3] < target_time
    THEN FastForward(path, idx + 1, target_time)
    ELSE idx

\* Car.step: [car |-> the car afterwards, ret |-> the returned position or None]
CarStep(car, current_time) ==
    LET target_time == current_time + 1
        idx == FastForward(car.path, car.current_step, target_time)
        c1 == [car EXCEPT !.current_step = idx]
    IN IF idx < Len(car.path) /\ car.path[idx + 1][3] = target_time
       THEN LET xy == <<car.path[idx + 1][1], car.path[idx + 1][2]>>
            IN [car |-> [c1 EXCEPT !.position = xy, !.current_step = idx + 1], ret |-> xy]
       ELSE IF idx < Len(car.path)
       THEN [car |-> c1, ret |-> c1.position]
       ELSE IF has_path(c1)
       THEN [car |-> c1, ret |-> None]
       ELSE [car |-> c1, ret |-> c1.position]

peek_at_next_step(car, current_time) ==
    LET target_time == current_time + 1
        idx == FastForward(car.path, car.current_step, target_time)
    IN IF idx < Len(car.path)
       THEN IF car.path[idx + 1][3] = target_time
            THEN <<car.path[idx + 1][1], car.path[idx + 1][2]>>
            ELSE car.position
       ELSE None

-----------------------------------------------------------------------------
(* The operations below act on a world w = [sim, pm, rt, cars, config, calls,
   rank, persistence, tie]: the objects of one simulation, the planner calls
   made so far in the running operation, and the random draws of the operation:
   rank orders the cells (the order in which min(), random.choice and
   random.shuffle meet equal candidates), persistence is the randint draw.
   tie records that the operation met equal candidates, so that its outcome
   depends on rank. *)

\* min(candidates, key = Manhattan distance to pos); ties fall to the draw
NearestCell(w, candidates, pos) ==
    CHOOSE c \in candidates :
        \A d \in candidates :
            \/ d = c
            \/ manhattan(c, pos) < manhattan(d, pos)
            \/ manhattan(c, pos) = manhattan(d, pos) /\ w.rank[c] < w.rank[d]

\* min() met two nearest candidates
NearestTie(candidates, pos) ==
    \E c, d \in candidates :
        /\ c # d
        /\ manhattan(c, pos) = manhattan(d, pos)
        /\ \A e \in candidates : manhattan(c, pos) <= manhattan(e, pos)

\* random.choice(list(candidates))
RandomChoice(w, candidates) ==
    CHOOSE c \in candidates : \A d \in candidates : w.rank[c] <= w.rank[d]

ChoiceTie(candidates) == Cardinality(candidates) > 1

(* core/parking_manager.py *)

\* a create_active_car that does not advance next_car_id: ids are handed out twice
create_active_car_same_id(w, start, intent) ==
    [w |-> [w EXCEPT !.cars = Put(@, w.pm.next_car_id, Car(w.pm.next_car_id, start, intent))],
     car_id |-> w.pm.next_car_id]

\* create_active_car: [w, car_id]; the Car is stored under its id
create_active_car(w, start, intent) ==
    [w |-> [w EXCEPT !.cars = Put(@, w.pm.next_car_id, Car(w.pm.next_car_id, start, intent)),
                     !.pm.next_car_id = @ + 1],
     car_id |-> w.pm.next_car_id]

\* create_parked_car with the spot random.choice drew: [w, car_id]
create_parked_car(w, spot) ==
    [w |-> [w EXCEPT !.cars = Put(@, w.pm.next_car_id,
                                  [Car(w.pm.next_car_id, spot, "NONE") EXCEPT !.goal = spot]),
                     !.pm.next_car_id = @ + 1,
                     !.pm.free_spots = @ \ {spot},
                     !.pm.occupied_spots = @ \cup {spot}],
     car_id |-> w.pm.next_car_id]

\* a choose_free_parking_spot that leaves the chosen spot in free_spots
choose_spot_kept_free(w, cid) ==
    IF w.pm.free_spots = {} THEN [w |-> w, goal |-> None]
    ELSE LET spot == NearestCell(w, w.pm.free_spots, w.cars[cid].position)
         IN [w |-> [w EXCEPT !.pm.assigned_spots = Put(@, cid, spot),
                             !.tie = @ \/ NearestTie(w.pm.free_spots,
                                                     w.cars[cid].position)],
             goal |-> spot]

\* [w, goal]
choose_free_parking_spot(w, cid) ==
    IF w.pm.free_spots = {} THEN [w |-> w, goal |-> None]
    ELSE LET spot == NearestCell(w, w.pm.free_spots, w.cars[cid].position)
         IN [w |-> [w EXCEPT !.pm.free_spots = @ \ {spot},
                             !.pm.assigned_spots = Put(@, cid, spot),
                             !.tie = @ \/ NearestTie(w.pm.free_spots,
                                                     w.cars[cid].position)],
             goal |-> spot]

choose_exit_cell(w, cid) ==
    IF exit_cells = {} THEN None
    ELSE NearestCell(w, exit_cells, w.cars[cid].position)

\* [w, goal]; a car of neither intent falls off the end of the function
assign_goal(w, cid) ==
    IF w.cars[cid].intent = "PARK" THEN choose_free_parking_spot(w, cid)
    ELSE IF w.cars[cid].intent = "EXIT"
    THEN [w |-> [w EXCEPT !.tie = @ \/ NearestTie(exit_cells, w.cars[cid].position)],
          goal |-> choose_exit_cell(w, cid)]
    ELSE [w |-> w, goal |-> None]

\* a mark_occupied that leaves the car's assignment in place
mark_occupied_keeps_assignment(w, cid, spot) ==
    [w EXCEPT !.pm.occupied_spots = @ \cup {spot}]

mark_occupied(w, cid, spot) ==
    [w EXCEPT !.pm.assigned_spots = Drop(@, cid),
              !.pm.occupied_spots = @ \cup {spot}]

release_assigned_spot(w, cid) ==
    IF cid \notin DOMAIN w.pm.assigned_spots THEN w
    ELSE LET spot == w.pm.assigned_spots[cid]
             w1 == [w EXCEPT !.pm.assigned_spots = Drop(@, cid)]
         IN IF spot \notin w.pm.occupied_spots
            THEN [w1 EXCEPT !.pm.free_spots = @ \cup {spot}]
            ELSE w1

(* planning/priority_planner.py *)

\* lines 36-42: what plan_for_car does with the path the planner returned for q
PathPlanned(w, cid, q, path) ==
    LET w1 == [w EXCEPT !.calls = Append(@, [car |-> cid, query |-> q, result |-> path])]
    IN IF path = None THEN [w |-> w1, ok |-> FALSE]
       ELSE [w |-> [w1 EXCEPT !.cars[cid] = set_path(@, path),
                              !.rt = reserve_path(@, path)],
             ok |-> TRUE]

\* [w, ok]
plan_for_car(w, cid, current_time, obstacles, obstacle_persistence) ==
    LET q == [start |-> w.cars[cid].position, start_time |-> current_time,
              goal |-> w.cars[cid].goal, table |-> w.rt,
              max_time |-> current_time + w.config.planning_horizon,
              obstacles |-> obstacles, persistence |-> obstacle_persistence]
    IN PathPlanned(w, cid, q, single_agent_a_star(q))

cancel_plan(w, cid) ==
    IF ~has_path(w.cars[cid]) THEN w
    ELSE [w EXCEPT !.rt = unreserve_path(@, w.cars[cid].path),
                   !.cars[cid] = clear_path(@)]

-----------------------------------------------------------------------------
(* core/simulation_core.py *)

\* random.random() < p, p in percent: the outcomes the draw can have
Bernoulli(p) == IF p <= 0 THEN {FALSE} ELSE IF p >= 100 THEN {TRUE} ELSE BOOLEAN

get_positions_snapshot(s) == s.car_positions

\* a _get_unplanned_obstacles that does not leave out the waiting cars
_get_unplanned_obstacles_with_waiting(w, exclude_car_id) ==
    {w.cars[cid].position :
        cid \in {c \in w.sim.active_cars \ {exclude_car_id} : ~has_path(w.cars[c])}}

_get_unplanned_obstacles(w, exclude_car_id) ==
    {w.cars[cid].position :
        cid \in {c \in w.sim.active_cars \ {exclude_car_id} :
                    /\ c \notin Range(w.sim.waiting_active_cars)
                    /\ ~has_path(w.cars[c])}}

\* car.goal = assign_goal(car, ...): ag is the [w, goal] assign_goal returned
GoalAssigned(ag, cid) == [ag.w EXCEPT !.cars[cid].goal = ag.goal]

\* lines 234-253 of _handle_new_car: pl is what plan_for_car returned
NewCarPlanned(pl, cid) ==
    IF pl.ok
       THEN [pl.w EXCEPT !.sim.total_planned = @ + 1,
                         !.cars[cid].plan_fail_count = 0]
       ELSE
         LET f0 == [pl.w EXCEPT !.sim.total_failed_plans = @ + 1,
                                !.cars[cid].plan_fail_count = @ + 1]
             f1 == IF /\ f0.cars[cid].intent = "EXIT"
                      /\ f0.cars[cid].plan_fail_count % 5 = 0
                      /\ exit_cells # {}
                   THEN [f0 EXCEPT !.cars[cid].goal = RandomChoice(f0, exit_cells),
                                   !.tie = @ \/ ChoiceTie(exit_cells)]
                   ELSE f0
             f2 == IF /\ f1.cars[cid].intent = "PARK"
                      /\ f1.cars[cid].plan_fail_count >= 3
                   THEN [release_assigned_spot(f1, cid) EXCEPT !.cars[cid].goal = None]
                   ELSE f1
         IN IF /\ f2.cars[cid].intent = "PARK"
               /\ f2.cars[cid].plan_fail_count >= 12
            THEN GoalAssigned(assign_goal([release_assigned_spot(f2, cid) EXCEPT
                                               !.cars[cid].intent = "EXIT"], cid),
                              cid)
            ELSE f2

\* lines 225-233 of _handle_new_car: ag is what assign_goal returned
NewCarGoal(ag, cid, start_time) ==
    LET w2 == GoalAssigned(ag, cid)
    IN IF ag.goal = None
       THEN [w2 EXCEPT !.sim.total_failed_plans = @ + 1]
       ELSE NewCarPlanned(plan_for_car(w2, cid, start_time,
                                       _get_unplanned_obstacles(w2, cid),
                                       DefaultPersistence),
                          cid)

_handle_new_car(w, cid, start_time) ==
    LET w1 == [w EXCEPT !.sim.active_cars = @ \cup {cid},
                        !.sim.car_positions = Put(@, cid, w.cars[cid].position),
                        !.sim.total_arrived = @ + 1]
    IN NewCarGoal(assign_goal(w1, cid), cid, start_time)

\* a cleanup that forgets the pending cars and leaves their positions
cleanup_keeps_positions(w) == [w EXCEPT !.sim.cars_pending_removal = {}]

_cleanup_exited_cars(w) ==
    [w EXCEPT !.sim.car_positions =
                  [c \in (DOMAIN @) \ w.sim.cars_pending_removal |-> @[c]],
              !.sim.cars_pending_removal = {}]

\* the second loop of _process_waiting_active_cars over woke_up[i..]
RECURSIVE WakeLoop(_, _, _)
WakeLoop(w, woke_up, i) ==
    IF i > Len(woke_up) THEN w
    ELSE
      LET cid == woke_up[i]
          pos == w.cars[cid].position
          w1 == [w EXCEPT !.sim.waiting_active_cars = SelectSeq(@, LAMBDA c : c # cid),
                          !.rt = unreserve_goal(@, pos[1], pos[2]),
                          !.pm.free_spots = @ \cup {pos}]
      IN WakeLoop(_handle_new_car(w1, cid, w1.sim.time), woke_up, i + 1)

\* draws: the set of waiting cars whose Bernoulli draw succeeded
_process_waiting_active_cars(w, draws) ==
    IF Len(w.sim.waiting_active_cars) = 0 THEN w
    ELSE WakeLoop(w, SelectSeq(w.sim.waiting_active_cars, LAMBDA c : c \in draws), 1)

\* dist_to_goal of _advance_cars; float('inf') is any value above every distance
dist_to_goal(car) ==
    IF car.goal = None THEN Area ELSE manhattan(car.position, car.goal)

\* list.sort(key = dist_to_goal) of the cars of S, which the dict yields by id
RECURSIVE SortByDist(_, _)
SortByDist(w, S) ==
    IF S = {} THEN <<>>
    ELSE LET m == CHOOSE c \in S : \A d \in S :
                      \/ d = c
                      \/ dist_to_goal(w.cars[c]) < dist_to_goal(w.cars[d])
                      \/ dist_to_goal(w.cars[c]) = dist_to_goal(w.cars[d]) /\ c < d
         IN <<m>> \o SortByDist(w, S \ {m})

\* a failed replanning that counts the failure and keeps slot, goal and intent
PlanFailureKeepsSlot(w, cid) ==
    [w EXCEPT !.cars[cid].last_plan_fail_time = w.sim.time,
              !.cars[cid].plan_fail_count = @ + 1]

\* a failed replanning with the rules for EXIT cars and for every third failure,
\* and without the conversion of the PARK car at the twelfth
PlanFailureStaysPark(w, cid) ==
    LET f0 == [w EXCEPT !.cars[cid].last_plan_fail_time = w.sim.time,
                        !.cars[cid].plan_fail_count = @ + 1]
        f1 == IF /\ f0.cars[cid].intent = "EXIT"
                 /\ f0.cars[cid].plan_fail_count % 5 = 0
                 /\ exit_cells # {}
              THEN [f0 EXCEPT !.cars[cid].goal = RandomChoice(f0, exit_cells),
                              !.tie = @ \/ ChoiceTie(exit_cells)]
              ELSE f0
    IN IF /\ f1.cars[cid].intent = "PARK"
          /\ f1.cars[cid].plan_fail_count % 3 = 0
       THEN [release_assigned_spot(f1, cid) EXCEPT !.cars[cid].goal = None]
       ELSE f1

\* a failed replanning that takes the goal from an EXIT car at every fifth failure
PlanFailureExitClearsGoal(w, cid) ==
    LET f0 == [w EXCEPT !.cars[cid].last_plan_fail_time = w.sim.time,
                        !.cars[cid].plan_fail_count = @ + 1]
    IN IF /\ f0.cars[cid].intent = "EXIT"
          /\ f0.cars[cid].plan_fail_count % 5 = 0
       THEN [f0 EXCEPT !.cars[cid].goal = None]
       ELSE f0

\* a give-up that draws the new goal while the car is still a PARK car and
\* changes the intent afterwards (lines 315 and 316 swapped)
PlanFailureGoalBeforeIntent(w, cid) ==
    LET f2 == PlanFailureStaysPark(w, cid)
    IN IF /\ f2.cars[cid].intent = "PARK"
          /\ f2.cars[cid].plan_fail_count >= 12
       THEN [GoalAssigned(assign_goal(release_assigned_spot(f2, cid), cid), cid)
                EXCEPT !.cars[cid].intent = "EXIT"]
       ELSE f2

\* the escalation after a failed replanning of car cid (lines 300-316)
PlanFailure(w, cid) ==
    LET f0 == [w EXCEPT !.cars[cid].last_plan_fail_time = w.sim.time,
                        !.cars[cid].plan_fail_count = @ + 1]
        f1 == IF /\ f0.cars[cid].intent = "EXIT"
                 /\ f0.cars[cid].plan_fail_count % 5 = 0
                 /\ exit_cells # {}
              THEN [f0 EXCEPT !.cars[cid].goal = RandomChoice(f0, exit_cells),
                                        !.tie = @ \/ ChoiceTie(exit_cells)]
              ELSE f0
        f2 == IF /\ f1.cars[cid].intent = "PARK"
                 /\ f1.cars[cid].plan_fail_count % 3 = 0
              THEN [release_assigned_spot(f1, cid) EXCEPT !.cars[cid].goal = None]
              ELSE f1
    IN IF /\ f2.cars[cid].intent = "PARK"
          /\ f2.cars[cid].plan_fail_count >= 12
       THEN GoalAssigned(assign_goal([release_assigned_spot(f2, cid) EXCEPT
                                          !.cars[cid].intent = "EXIT"], cid),
                         cid)
       ELSE f2

\* lines 300-318: pl is what plan_for_car returned
Replanned(pl, cid) ==
    IF pl.ok THEN [pl.w EXCEPT !.cars[cid].plan_fail_count = 0]
    ELSE PlanFailure(pl.w, cid)

\* lines 285-298: ag is the car's goal, or what assign_goal returned
ReplanGoal(ag, cid) ==
    LET w1 == GoalAssigned(ag, cid)
    IN IF ag.goal = None THEN w1
       ELSE Replanned(plan_for_car(w1, cid, w1.sim.time,
                                   _get_unplanned_obstacles(w1, cid), w1.persistence),
                      cid)

\* the body of the loop over cars_needing_plan for one car
PlanOne(w, cid) ==
    ReplanGoal(IF has_goal(w.cars[cid]) THEN [w |-> w, goal |-> w.cars[cid].goal]
               ELSE assign_goal(w, cid),
               cid)

\* stage 1 of _advance_cars: the loop over cars_needing_plan[i..]
RECURSIVE PlanLoop(_, _, _)
PlanLoop(w, cars_needing_plan, i) ==
    IF i > Len(cars_needing_plan) THEN w
    ELSE PlanLoop(PlanOne(w, cars_needing_plan[i]), cars_needing_plan, i + 1)

PlanUnplanned(w) ==
    PlanLoop(w, SortByDist(w, {c \in w.sim.active_cars :
                                  /\ c \notin Range(w.sim.waiting_active_cars)
                                  /\ ~has_path(w.cars[c])}), 1)

\* stage 2: intended_moves, and the order in which the dict holds its keys
IntendedMoves(w) ==
    [cid \in w.sim.active_cars \cup DOMAIN w.sim.car_positions |->
        IF cid \in w.sim.active_cars
        THEN LET next_pos == peek_at_next_step(w.cars[cid], w.sim.time)
             IN IF next_pos = None THEN w.cars[cid].position ELSE next_pos
        ELSE w.sim.car_positions[cid]]

MoveOrder(w) ==
    Ascending(w.sim.active_cars)
        \o Ascending((DOMAIN w.sim.car_positions) \ w.sim.active_cars)

\* pos_to_cid.get(pos): the dict comprehension keeps the last car at a position
PosToCid(current_positions, pos) ==
    LET at == {c \in DOMAIN current_positions : current_positions[c] = pos}
    IN IF at = {} THEN -1 ELSE CHOOSE c \in at : \A d \in at : d <= c

\* a winner that is the largest car_id when no contender stands on pos
WinnerLargest(current_positions, order, cids, pos) ==
    LET there == {i \in 1..Len(order) :
                     order[i] \in cids /\ current_positions[order[i]] = pos}
    IN IF there # {} THEN order[CHOOSE i \in there : \A j \in there : i <= j]
       ELSE CHOOSE c \in cids : \A d \in cids : c >= d

\* the winner of a vertex conflict among cids, the cars moving to pos
Winner(current_positions, order, cids, pos) ==
    LET there == {i \in 1..Len(order) :
                     order[i] \in cids /\ current_positions[order[i]] = pos}
    IN IF there # {} THEN order[CHOOSE i \in there : \A j \in there : i <= j]
       ELSE CHOOSE c \in cids : \A d \in cids : c <= d

\* "Check Vertex Conflicts": moves_to_cell is built once, losers are reverted
VertexPass(current_positions, order, active_moves) ==
    [cid \in DOMAIN active_moves |->
        LET pos == active_moves[cid]
            cids == {c \in DOMAIN active_moves : active_moves[c] = pos}
        IN IF Cardinality(cids) > 1 /\ cid # Winner(current_positions, order, cids, pos)
           THEN current_positions[cid]
           ELSE pos]

\* a pass in which a car standing in the way of a mover trades places with it
RECURSIVE EdgePassTrading(_, _, _, _)
EdgePassTrading(current_positions, order, active_moves, i) ==
    IF i > Len(order) THEN active_moves
    ELSE
      LET cid_a == order[i]
          next_a == active_moves[cid_a]
          curr_a == current_positions[cid_a]
          cid_b == PosToCid(current_positions, next_a)
      IN IF next_a = curr_a \/ cid_b = -1
         THEN EdgePassTrading(current_positions, order, active_moves, i + 1)
         ELSE EdgePassTrading(current_positions, order,
                              [active_moves EXCEPT ![cid_b] = curr_a], i + 1)

\* "Check Edge Swaps": the loop over order[i..], reading the moves as they stand
RECURSIVE EdgePass(_, _, _, _)
EdgePass(current_positions, order, active_moves, i) ==
    IF i > Len(order) THEN active_moves
    ELSE
      LET cid_a == order[i]
          next_a == active_moves[cid_a]
          curr_a == current_positions[cid_a]
          cid_b == PosToCid(current_positions, next_a)
      IN IF next_a = curr_a \/ cid_b = -1
         THEN EdgePass(current_positions, order, active_moves, i + 1)
         ELSE IF cid_b \in DOMAIN active_moves /\ active_moves[cid_b] = curr_a
         THEN EdgePass(current_positions, order,
                       [active_moves EXCEPT ![cid_a] = curr_a,
                                            ![cid_b] = current_positions[cid_b]],
                       i + 1)
         ELSE EdgePass(current_positions, order, active_moves, i + 1)

\* a resolution that reverts no move
KeepMoves(current_positions, order, active_moves) == active_moves

\* stage 3: the while loop, until a pass changes nothing
RECURSIVE ResolveConflicts(_, _, _)
ResolveConflicts(current_positions, order, active_moves) ==
    LET m1 == VertexPass(current_positions, order, active_moves)
        m2 == EdgePass(current_positions, order, m1, 1)
    IN IF m2 = active_moves THEN active_moves
       ELSE ResolveConflicts(current_positions, order, m2)

\* the while loop again, keeping active_moves as it stands at the start of each
\* iteration: the last entry is the map the loop ends with
RECURSIVE ResolveRounds(_, _, _)
ResolveRounds(current_positions, order, active_moves) ==
    LET m1 == VertexPass(current_positions, order, active_moves)
        m2 == EdgePass(current_positions, order, m1, 1)
    IN IF m2 = active_moves THEN <<active_moves>>
       ELSE <<active_moves>> \o ResolveRounds(current_positions, order, m2)

\* the last (x, y) of a path
PathEnd(path) == <<path[Len(path)][1], path[Len(path)][2]>>

\* lines 434-467: a car that moved onto its goal this tick
GoalReachedByMove(w, cid, final_pos) ==
    LET car == w.cars[cid]
        completed_path == car.path
        done ==
          IF car.intent = "PARK" THEN
            LET m0 == [w EXCEPT !.sim.total_parked = @ + 1]
                m1 == IF ~car.is_initial
                      THEN [m0 EXCEPT !.sim.arriving_cars_parked_count = @ + 1,
                                      !.sim.sum_steps_to_park =
                                          @ + (w.sim.time - car.spawn_time)]
                      ELSE m0
                m2 == mark_occupied(m1, cid, final_pos)
                m3 == IF Len(completed_path) > 0
                      THEN [m2 EXCEPT !.rt =
                              reserve_goal(unreserve_path(@, completed_path),
                                           PathEnd(completed_path)[1],
                                           PathEnd(completed_path)[2])]
                      ELSE m2
            IN [m3 EXCEPT !.cars[cid] = clear_path(@)]
          ELSE IF car.intent = "EXIT" THEN
            LET e0 == IF car.is_initial
                      THEN [w EXCEPT !.sim.initial_active_cars_exited_count = @ + 1,
                                     !.sim.sum_steps_to_exit =
                                         @ + (w.sim.time - car.spawn_time)]
                      ELSE w
                e1 == [e0 EXCEPT !.sim.exited_car_ids = @ \cup {cid}]
                e2 == IF Len(completed_path) > 0
                      THEN [e1 EXCEPT !.rt = unreserve_path(@, completed_path)]
                      ELSE e1
            IN [e2 EXCEPT !.sim.cars_pending_removal = @ \cup {cid},
                          !.cars[cid] = clear_path(@)]
          ELSE w
    IN [done EXCEPT !.sim.active_cars = @ \ {cid}]

\* lines 498-531: a car whose path is consumed while it stays put
PathFinished(w, cid, curr_pos) ==
    LET car == w.cars[cid]
        completed_path == car.path
    IN IF curr_pos = car.goal THEN
         LET done ==
               IF car.intent = "PARK" THEN
                 LET m0 == [w EXCEPT !.sim.total_parked = @ + 1]
                     m2 == mark_occupied(m0, cid, curr_pos)
                     m3 == IF Len(completed_path) > 0
                           THEN [m2 EXCEPT !.rt =
                                   reserve_goal(unreserve_path(@, completed_path),
                                                PathEnd(completed_path)[1],
                                                PathEnd(completed_path)[2])]
                           ELSE m2
                 IN [m3 EXCEPT !.cars[cid] = clear_path(@)]
               ELSE IF car.intent = "EXIT" THEN
                 LET e1 == [w EXCEPT !.sim.exited_car_ids = @ \cup {cid}]
                     e2 == IF Len(completed_path) > 0
                           THEN [e1 EXCEPT !.rt = unreserve_path(@, completed_path)]
                           ELSE e1
                 IN [e2 EXCEPT !.sim.cars_pending_removal = @ \cup {cid},
                               !.cars[cid] = clear_path(@)]
               ELSE w
         IN [done EXCEPT !.sim.active_cars = @ \ {cid}]
       ELSE [w EXCEPT !.cars[cid] = clear_path(@)]

\* a blocked branch that counts the block and keeps the plan
BlockedKeepsPlan(w, cid) == [w EXCEPT !.cars[cid].blocked_count = @ + 1]

\* lines 472-486: a car that wanted to move and was reverted
Blocked(w, cid) ==
    LET b0 == [cancel_plan(w, cid) EXCEPT !.cars[cid].blocked_count = @ + 1]
        b1 == IF /\ b0.cars[cid].intent = "PARK"
                 /\ b0.cars[cid].blocked_count % 3 = 0
              THEN [release_assigned_spot(b0, cid) EXCEPT !.cars[cid].goal = None]
              ELSE b0
    IN IF /\ b1.cars[cid].intent = "PARK"
          /\ b1.cars[cid].blocked_count >= 12
       THEN GoalAssigned(assign_goal([release_assigned_spot(b1, cid) EXCEPT
                                          !.cars[cid].intent = "EXIT"], cid),
                         cid)
       ELSE b1

\* the body of the "Apply Moves" loop for one car
ApplyMove(w, cid, intended_moves, active_moves) ==
    LET final_pos == active_moves[cid]
        curr_pos == w.cars[cid].position
    IN IF final_pos # curr_pos THEN
         LET st == CarStep(w.cars[cid], w.sim.time)
             w1 == [w EXCEPT !.cars[cid] = [st.car EXCEPT !.blocked_count = 0],
                             !.sim.car_positions = Put(@, cid, final_pos)]
         IN IF final_pos = w1.cars[cid].goal
            THEN GoalReachedByMove(w1, cid, final_pos)
            ELSE w1
       ELSE IF intended_moves[cid] # curr_pos THEN Blocked(w, cid)
       ELSE
         LET w1 == IF has_path(w.cars[cid])
                   THEN LET st == CarStep(w.cars[cid], w.sim.time)
                        IN [w EXCEPT !.cars[cid] = st.car,
                                     !.sim.car_positions =
                                         IF st.ret # None THEN Put(@, cid, st.ret) ELSE @]
                   ELSE w
         IN IF is_finished(w1.cars[cid]) /\ has_path(w1.cars[cid])
            THEN PathFinished(w1, cid, curr_pos)
            ELSE w1

\* stage 4: the loop over list(self.active_cars.items())[i..]
RECURSIVE ApplyMoves(_, _, _, _, _)
ApplyMoves(w, ids, i, intended_moves, active_moves) ==
    IF i > Len(ids) THEN w
    ELSE ApplyMoves(ApplyMove(w, ids[i], intended_moves, active_moves),
                    ids, i + 1, intended_moves, active_moves)

\* stages 3 and 4 of _advance_cars (lines 342-534), on the intended moves
MoveCars(w1, intended_moves) ==
    LET current_positions == get_positions_snapshot(w1.sim)
        active_moves == ResolveConflicts(current_positions, MoveOrder(w1), intended_moves)
    IN ApplyMoves(w1, Ascending(w1.sim.active_cars), 1, intended_moves, active_moves)

\* stage 2 of _advance_cars (lines 320-340), after the planning stage
PeekMoves(w1) == MoveCars(w1, IntendedMoves(w1))

_advance_cars(w) == PeekMoves(PlanUnplanned(w))

\* a _get_free_entry that makes the spatial check only
_get_free_entry_by_position(w) ==
    LET admissible ==
          {e \in entry_cells :
              \A c \in DOMAIN w.sim.car_positions : w.sim.car_positions[c] # e}
    IN IF admissible = {} THEN None ELSE RandomChoice(w, admissible)

\* the entries in shuffled order are the entries by rank; the first admissible one
_get_free_entry(w) ==
    LET admissible ==
          {e \in entry_cells :
              /\ \A c \in DOMAIN w.sim.car_positions : w.sim.car_positions[c] # e
              /\ \A t_offset \in 0..(CheckHorizon - 1) :
                    is_cell_free(w.rt, e[1], e[2], w.sim.time + t_offset)}
    IN IF admissible = {} THEN None ELSE RandomChoice(w, admissible)

\* the shuffle of _get_free_entry decided between admissible entries
EntryTie(w) ==
    ChoiceTie({e \in entry_cells :
                 /\ \A c \in DOMAIN w.sim.car_positions : w.sim.car_positions[c] # e
                 /\ \A t_offset \in 0..(CheckHorizon - 1) :
                       is_cell_free(w.rt, e[1], e[2], w.sim.time + t_offset)})

\* a _maybe_poisson_arrival without the test against max_arriving_cars
_maybe_poisson_arrival_uncapped(w, draw) ==
    IF w.pm.free_spots = {} THEN w
    ELSE
      LET free_entry == _get_free_entry(w)
      IN IF free_entry = None THEN w
         ELSE IF ~draw THEN w
         ELSE
           LET cr == create_active_car(w, free_entry, "PARK")
               w1 == [cr.w EXCEPT !.tie = @ \/ EntryTie(w),
                                  !.cars[cr.car_id].spawn_time = w.sim.time,
                                  !.sim.arriving_cars_created = @ + 1,
                                  !.sim.car_positions = Put(@, cr.car_id, free_entry)]
           IN _handle_new_car(w1, cr.car_id, w1.sim.time + 1)

\* a _maybe_poisson_arrival that plans the new car from the tick of the step
_maybe_poisson_arrival_starts_now(w, draw) ==
    IF w.sim.arriving_cars_created >= w.config.max_arriving_cars THEN w
    ELSE IF w.pm.free_spots = {} THEN w
    ELSE
      LET free_entry == _get_free_entry(w)
      IN IF free_entry = None THEN w
         ELSE IF ~draw THEN w
         ELSE
           LET cr == create_active_car(w, free_entry, "PARK")
               w1 == [cr.w EXCEPT !.tie = @ \/ EntryTie(w),
                                  !.cars[cr.car_id].spawn_time = w.sim.time,
                                  !.sim.arriving_cars_created = @ + 1,
                                  !.sim.car_positions = Put(@, cr.car_id, free_entry)]
           IN _handle_new_car(w1, cr.car_id, w1.sim.time)

\* a _maybe_poisson_arrival without the test for a free slot
_maybe_poisson_arrival_full_lot(w, draw) ==
    IF w.sim.arriving_cars_created >= w.config.max_arriving_cars THEN w
    ELSE
      LET free_entry == _get_free_entry(w)
      IN IF free_entry = None THEN w
         ELSE IF ~draw THEN w
         ELSE
           LET cr == create_active_car(w, free_entry, "PARK")
               w1 == [cr.w EXCEPT !.tie = @ \/ EntryTie(w),
                                  !.cars[cr.car_id].spawn_time = w.sim.time,
                                  !.sim.arriving_cars_created = @ + 1,
                                  !.sim.car_positions = Put(@, cr.car_id, free_entry)]
           IN _handle_new_car(w1, cr.car_id, w1.sim.time + 1)

\* draw: the outcome of random.random() < arrival_lambda
_maybe_poisson_arrival(w, draw) ==
    IF w.sim.arriving_cars_created >= w.config.max_arriving_cars THEN w
    ELSE IF w.pm.free_spots = {} THEN w
    ELSE
      LET free_entry == _get_free_entry(w)
      IN IF free_entry = None THEN w
         ELSE IF ~draw THEN w
         ELSE
           LET cr == create_active_car(w, free_entry, "PARK")
               w1 == [cr.w EXCEPT !.tie = @ \/ EntryTie(w),
                                  !.cars[cr.car_id].spawn_time = w.sim.time,
                                  !.sim.arriving_cars_created = @ + 1,
                                  !.sim.car_positions = Put(@, cr.car_id, free_entry)]
           IN _handle_new_car(w1, cr.car_id, w1.sim.time + 1)

\* step(): woke and arrive are the Bernoulli draws
step(w, woke, arrive) ==
    LET w1 == _cleanup_exited_cars(w)
        w2 == _process_waiting_active_cars(w1, woke)
        w3 == _advance_cars(w2)
        w4 == _maybe_poisson_arrival(w3, arrive)
    IN [w4 EXCEPT !.sim.time = @ + 1]

-----------------------------------------------------------------------------
(* The simulation: SimulationCore.__init__ and step() *)

\* the bijections of a set S onto 1..|S|
Perms(S) == {f \in [S -> 1..Cardinality(S)] : \A a, b \in S : f[a] = f[b] => a = b}

\* the orders in which equal candidates of one kind can be met
Rankings ==
    {[c \in AllCells |->
         IF c \in parking_cells THEN p[c]
         ELSE IF c \in exit_cells THEN x[c]
         ELSE IF c \in entry_cells THEN e[c]
         ELSE 0] :
       p \in Perms(parking_cells), x \in Perms(exit_cells), e \in Perms(entry_cells)}

NoRank == [c \in AllCells |-> 0]

\* one of the orders: an operation that meets no equal candidates under it
\* meets none under any other and has the same outcome under all
FirstRanking == CHOOSE r \in Rankings : TRUE

Configs ==
    [planning_horizon : {PlanningHorizon},
     arrival_lambda : {0, 50},
     max_arriving_cars : {0, MaxArriving},
     initial_parked_cars : 0..MaxInitialParked,
     initial_active_cars : 0..MaxInitialActive,
     initial_active_exit_rate : {50}]

\* the objects as the constructors leave them, before _initialize_cars
NewWorld(cfg) ==
    [sim |-> [time |-> 0, active_cars |-> {}, car_positions |-> <<>>,
              exited_car_ids |-> {}, cars_pending_removal |-> {},
              waiting_active_cars |-> <<>>,
              arriving_cars_created |-> 0, total_arrived |-> 0, total_planned |-> 0,
              total_failed_plans |-> 0, total_parked |-> 0,
              initial_active_cars_exited_count |-> 0, arriving_cars_parked_count |-> 0,
              sum_steps_to_park |-> 0, sum_steps_to_exit |-> 0],
     pm |-> [free_spots |-> parking_cells, assigned_spots |-> <<>>,
             occupied_spots |-> {}, next_car_id |-> 0],
     rt |-> EmptyTable,
     cars |-> <<>>,
     config |-> cfg,
     calls |-> <<>>,
     rank |-> NoRank,
     persistence |-> DefaultPersistence,
     tie |-> FALSE]

\* one round of the "parked cars" loop, with the spot random.choice drew
InitParked(w, spot) ==
    LET cr == create_parked_car(w, spot)
        w1 == [cr.w EXCEPT !.sim.car_positions = Put(@, cr.car_id, spot)]
        w2 == mark_occupied(w1, cr.car_id, spot)
    IN [w2 EXCEPT !.rt = reserve_goal(@, spot[1], spot[2]),
                  !.sim.total_parked = @ + 1]

\* one round of the "active cars" loop, with the spot random.choice drew
InitActive(w, spot) ==
    LET w0 == [w EXCEPT !.pm.free_spots = @ \ {spot}]
        cr == create_active_car(w0, spot, "EXIT")
    IN [cr.w EXCEPT !.cars[cr.car_id].spawn_time = 0,
                    !.cars[cr.car_id].is_initial = TRUE,
                    !.sim.active_cars = @ \cup {cr.car_id},
                    !.sim.car_positions = Put(@, cr.car_id, spot),
                    !.sim.total_arrived = @ + 1,
                    !.rt = reserve_goal(@, spot[1], spot[2]),
                    !.sim.waiting_active_cars = Append(@, cr.car_id)]

\* _initialize_cars with the drawn spots: the first n_parked go to parked cars
RECURSIVE InitLoop(_, _, _, _)
InitLoop(w, spots, i, n_parked) ==
    IF i > Len(spots) THEN w
    ELSE InitLoop(IF i <= n_parked THEN InitParked(w, spots[i]) ELSE InitActive(w, spots[i]),
                  spots, i + 1, n_parked)

Min(a, b) == IF a < b THEN a ELSE b
Max(a, b) == IF a > b THEN a ELSE b

\* the capacity check: config.initial_active_cars after the cap
CappedActive(cfg) ==
    LET total_spots == Cardinality(parking_cells)
        max_active == Max(0, total_spots - cfg.initial_parked_cars)
    IN IF /\ cfg.initial_parked_cars + cfg.initial_active_cars > total_spots
          /\ cfg.initial_active_cars > max_active
       THEN max_active
       ELSE cfg.initial_active_cars

\* the sequences of n distinct members of S
RECURSIVE Draws(_, _)
Draws(S, n) ==
    IF n = 0 \/ S = {} THEN {<<>>}
    ELSE UNION {{<<c>> \o rest : rest \in Draws(S \ {c}, n - 1)} : c \in S}

_initialize_cars(cfg0, spots) ==
    LET cfg == [cfg0 EXCEPT !.initial_active_cars = CappedActive(cfg0)]
        n_parked == Min(cfg.initial_parked_cars, Cardinality(parking_cells))
    IN InitLoop(NewWorld(cfg), spots, 1, n_parked)

InitFrom(cfgs) ==
    \E cfg \in cfgs :
      \E spots \in Draws(parking_cells,
                         Min(cfg.initial_parked_cars, Cardinality(parking_cells))
                           + CappedActive(cfg)) :
        LET w == _initialize_cars(cfg, spots)
        IN /\ sim = w.sim
           /\ pm = w.pm
           /\ rt = w.rt
           /\ cars = w.cars
           /\ config = w.config
           /\ prev_positions = w.sim.car_positions
           /\ plan_calls = <<>>
           /\ op = [name |-> "init"]

Init == InitFrom(Configs)

\* the outcomes of the per-car wake-up draws: the set of cars that wake
WakeDraws ==
    {S \in SUBSET Range(sim.waiting_active_cars) :
        \A c \in Range(sim.waiting_active_cars) :
            (c \in S) \in Bernoulli(config.initial_active_exit_rate)}

\* random.randint(10, 30): a successor's tick is at most start_time + planning_horizon,
\* so below a horizon of 10 every draw rejects the same successors
PersistenceDraws ==
    IF PlanningHorizon < PersistenceMin THEN {PersistenceMin}
    ELSE {PersistenceMin, PersistenceMax}

\* the current objects with the draws of one operation
World(rank, persistence) ==
    [sim |-> sim, pm |-> pm, rt |-> rt, cars |-> cars, config |-> config,
     calls |-> <<>>, rank |-> rank, persistence |-> persistence, tie |-> FALSE]

\* the objects become those of w
Becomes(w) ==
    /\ sim' = w.sim
    /\ pm' = w.pm
    /\ rt' = w.rt
    /\ cars' = w.cars
    /\ config' = w.config
    /\ plan_calls' = w.calls

\* one call of step() on the objects before tick last, with every outcome of
\* its draws
StepUpTo(last) ==
    /\ sim.time < last
    /\ \E woke \in WakeDraws, arrive \in Bernoulli(config.arrival_lambda),
          persistence \in PersistenceDraws :
         LET first == step(World(FirstRanking, persistence), woke, arrive)
         IN IF first.tie
            THEN \E rank \in Rankings : Becomes(step(World(rank, persistence), woke, arrive))
            ELSE Becomes(first)
    /\ prev_positions' = get_positions_snapshot(sim)

StepCall == StepUpTo(MaxTime)

\* step() called from outside, as the API and the scenario runner call it
Step ==
    /\ StepCall
    /\ op' = [name |-> "step"]

Next == Step

Spec == Init /\ [][Next]_vars

(* Longer runs of step() on two configurations: a crowded lot, in which a car
   gives up one slot and parks on the one it stands on, and a lot whose parked
   car can shut an arriving car out of its slot for as long as the run lasts *)

CrowdedConfig ==
    [planning_horizon |-> PlanningHorizon, arrival_lambda |-> 50,
     max_arriving_cars |-> MaxArriving, initial_parked_cars |-> 0,
     initial_active_cars |-> MaxInitialActive, initial_active_exit_rate |-> 50]

StuckConfig ==
    [planning_horizon |-> PlanningHorizon, arrival_lambda |-> 50,
     max_arriving_cars |-> MaxArriving, initial_parked_cars |-> MaxInitialParked,
     initial_active_cars |-> 0, initial_active_exit_rate |-> 50]

InitLong == Init /\ config = CrowdedConfig

StepLong ==
    /\ StepUpTo(MaxCrowdedTime)
    /\ op' = [name |-> "step"]

NextLong == StepLong

SpecLong == InitLong /\ [][NextLong]_vars

InitStuck == Init /\ config = StuckConfig

StepStuck ==
    /\ StepUpTo(MaxStuckTime)
    /\ op' = [name |-> "step"]

NextStuck == StepStuck

SpecStuck == InitStuck /\ [][NextStuck]_vars

(* The blocked branch of the "Apply Moves" loop as a function of the car's
   blocked_count: a car that holds a path and is about to move, in a state a run
   of step() reaches, is blocked with every count up to MaxBlockedBefore behind it.
   A count grows by one in each step in which the car is reverted and goes back
   to 0 only when the car moves. *)

\* the random draws of the blocked branch: lines 469-486 call no function of
\* the random module
BlockedDraws(w, cid) == <<>>

InitBlocked == Init /\ config = CrowdedConfig

StepBlocked ==
    /\ op.name # "blocked"
    /\ StepUpTo(MaxBlockedTime)
    /\ op' = [name |-> "step"]

\* the slot car cid holds in w, or None
AssignedSlot(w, cid) ==
    IF cid \in DOMAIN w.pm.assigned_spots THEN w.pm.assigned_spots[cid] ELSE None

\* what the blocked branch turns w into, as the record kept of the call
BlockedResult(w, w1, cid) ==
    [name |-> "blocked", car |-> cid,
     before |-> [intent |-> w.cars[cid].intent, goal |-> w.cars[cid].goal,
                 blocked_count |-> w.cars[cid].blocked_count,
                 assigned |-> AssignedSlot(w, cid)],
     after |-> [intent |-> w1.cars[cid].intent, goal |-> w1.cars[cid].goal,
                blocked_count |-> w1.cars[cid].blocked_count,
                path |-> w1.cars[cid].path,
                assigned |-> AssignedSlot(w1, cid)],
     free_spots |-> w1.pm.free_spots,
     draws |-> BlockedDraws(w, cid)]

\* lines 469-486 for one car that wanted to move and was reverted
BlockedCall ==
    /\ op.name # "blocked"
    /\ \E cid \in sim.active_cars, k \in 0..MaxBlockedBefore :
         /\ cid \notin Range(sim.waiting_active_cars)
         /\ has_path(cars[cid])
         /\ peek_at_next_step(cars[cid], sim.time) \notin {None, cars[cid].position}
         /\ op' = BlockedResult([World(FirstRanking, PersistenceMin) EXCEPT
                                    !.cars[cid].blocked_count = k],
                                Blocked([World(FirstRanking, PersistenceMin) EXCEPT
                                            !.cars[cid].blocked_count = k], cid),
                                cid)
    /\ UNCHANGED <<sim, pm, rt, cars, config, plan_calls, prev_positions>>

NextBlocked == StepBlocked \/ BlockedCall

SpecBlocked == InitBlocked /\ [][NextBlocked]_vars

(* The calls of the random module made by one step(), in the order in which
   the stages make them: "wake" is random.random() of line 163, "persistence"
   random.randint of line 291, "choice" random.choice of lines 244 and 307,
   "shuffle" random.shuffle of line 540 and "arrival" random.random() of 206 *)

\* the draws around the planner calls first..last of a stage that leaves w: a
\* persistence draw before each call of the advance stage, and a choice among
\* the exits after a failed call that brings an EXIT car to a multiple of 5
RECURSIVE CallDraws(_, _, _, _)
CallDraws(w, first, last, advance) ==
    IF first > last THEN <<>>
    ELSE LET c == w.calls[first].car
         IN (IF advance THEN <<"persistence">> ELSE <<>>)
            \o (IF /\ w.calls[first].result = None
                   /\ w.calls[first].query.goal \in exit_cells
                   /\ w.cars[c].intent = "EXIT"
                   /\ w.cars[c].plan_fail_count % 5 = 0
                   /\ exit_cells # {}
                THEN <<"choice">> ELSE <<>>)
            \o CallDraws(w, first + 1, last, advance)

\* _process_waiting_active_cars: one draw for each waiting car, then the
\* woken cars are handled; w1 is the world before the stage and w2 after it
WakeStageDraws(w1, w2) ==
    [i \in 1..Len(w1.sim.waiting_active_cars) |-> "wake"]
        \o CallDraws(w2, Len(w1.calls) + 1, Len(w2.calls), FALSE)

\* stage 1 of _advance_cars, from w2 to w3
AdvanceStageDraws(w2, w3) == CallDraws(w3, Len(w2.calls) + 1, Len(w3.calls), TRUE)

\* _maybe_poisson_arrival on w3: the shuffle is made by _get_free_entry
\* (line 201), before the draw against arrival_lambda (line 206)
ArrivalStageDraws(w3) ==
    IF w3.sim.arriving_cars_created >= w3.config.max_arriving_cars THEN <<>>
    ELSE IF w3.pm.free_spots = {} THEN <<>>
    ELSE <<"shuffle">> \o (IF _get_free_entry(w3) = None THEN <<>> ELSE <<"arrival">>)

DrawsAfterAdvance(w2, w3) == AdvanceStageDraws(w2, w3) \o ArrivalStageDraws(w3)

DrawsAfterWake(w1, w2) == WakeStageDraws(w1, w2) \o DrawsAfterAdvance(w2, _advance_cars(w2))

DrawsAfterCleanup(w1, woke) == DrawsAfterWake(w1, _process_waiting_active_cars(w1, woke))

\* the draws of step() on w
StepDraws(w, woke) == DrawsAfterCleanup(_cleanup_exited_cars(w), woke)

\* step() with the ranking and the draws given, and the record of its draws
StepWith(rank, persistence, woke, arrive) ==
    /\ Becomes(step(World(rank, persistence), woke, arrive))
    /\ op' = [name |-> "step", draws |-> StepDraws(World(rank, persistence), woke)]

StepRng ==
    /\ sim.time < MaxTime
    /\ \E woke \in WakeDraws, arrive \in Bernoulli(config.arrival_lambda),
          persistence \in PersistenceDraws :
         IF step(World(FirstRanking, persistence), woke, arrive).tie
         THEN \E rank \in Rankings : StepWith(rank, persistence, woke, arrive)
         ELSE StepWith(FirstRanking, persistence, woke, arrive)
    /\ prev_positions' = get_positions_snapshot(sim)

InitRng == Init

NextRng == StepRng

SpecRng == InitRng /\ [][NextRng]_vars

(* run(): the loop that calls step() until its termination condition holds *)

\* a termination test that does not look at the active set
run_done_on_arrivals(s, cfg) ==
    \/ s.arriving_cars_created >= cfg.max_arriving_cars
    \/ cfg.arrival_lambda = 0

\* lines 625-630: the test after each step() that breaks out of the loop
run_done(s, cfg) ==
    /\ s.active_cars = {}
    /\ \/ s.arriving_cars_created >= cfg.max_arriving_cars
       \/ cfg.arrival_lambda = 0

\* lines 632-639: the dictionary run() returns
run_result(s) ==
    [final_time |-> s.time,
     total_arrived |-> s.total_arrived,
     total_planned |-> s.total_planned,
     total_failed_plans |-> s.total_failed_plans,
     total_parked |-> s.total_parked,
     active_cars |-> Cardinality(s.active_cars)]

\* one round of the loop of run(): step(), then return or go round again;
\* op.name = "run" once run() has returned
RunLoop ==
    /\ op.name # "run"
    /\ StepCall
    /\ op' = IF run_done(sim', config')
             THEN [name |-> "run", result |-> run_result(sim')]
             ELSE [name |-> "step"]

NextRun == RunLoop

SpecRun == Init /\ [][NextRun]_vars

(* run() on a lot that fills up before the last arrival is created: one slot is
   taken from the start, the initial active cars leave the other two, and more
   cars may arrive than the two slots can take *)

FullConfig ==
    [planning_horizon |-> PlanningHorizon, arrival_lambda |-> 50,
     max_arriving_cars |-> MaxFullArriving, initial_parked_cars |-> MaxInitialParked,
     initial_active_cars |-> MaxInitialActive, initial_active_exit_rate |-> 50]

InitFull == InitFrom({FullConfig})

RunLoopFull ==
    /\ op.name # "run"
    /\ StepUpTo(MaxFullTime)
    /\ op' = IF run_done(sim', config')
             THEN [name |-> "run", result |-> run_result(sim')]
             ELSE [name |-> "step"]

NextFull == RunLoopFull

SpecFull == InitFull /\ [][NextFull]_vars

-----------------------------------------------------------------------------
(* The planning API with arguments drawn from bounded sets *)

DrivableCells == {c \in AllCells : is_drivable(CellType(c[1], c[2]))}

\* the cells of the paths handed to the table: the lane every route crosses
PathCells == {<<1, 0>>, <<2, 0>>}

\* the (x, y, t) entries of the paths handed to the table
PathEntries == {<<c[1], c[2], t>> : c \in PathCells, t \in 1..(MaxStartTime + 1)}

\* lists of (x, y, t) with consecutive ticks, of 1..MaxPathLen entries
RECURSIVE PathsOfLen(_)
PathsOfLen(n) ==
    IF n = 1 THEN {<<e>> : e \in PathEntries}
    ELSE {Append(p, e) : p \in PathsOfLen(n - 1), e \in PathEntries}

PlannerPaths ==
    {p \in UNION {PathsOfLen(n) : n \in 1..MaxPathLen} :
        \A i \in 2..Len(p) : p[i][3] = p[i - 1][3] + 1}

\* the tables that at most two reserve_path calls and the reserve_goal calls
\* of at most MaxStatic parking cells build
PlannerTables ==
    {[vertex_reservations |-> PathVertices(p1) \cup PathVertices(p2),
      edge_reservations |-> PathEdges(p1) \cup PathEdges(p2),
      static_cells |-> st] :
        p1 \in PlannerPaths \cup {<<>>}, p2 \in PlannerPaths \cup {<<>>},
        st \in {S \in SUBSET parking_cells : Cardinality(S) <= MaxStatic}}

\* the arguments of a query on a table: any drivable cell or the WALL (0, 1)
\* as start and as goal, no obstacle or a car standing on (1, 0)
PlannerQueries(table) ==
    {[start |-> s, start_time |-> t, goal |-> g, table |-> table,
      max_time |-> t + PlanningHorizon, obstacles |-> ob[1], persistence |-> ob[2]] :
        s \in DrivableCells \cup {<<0, 1>>},
        g \in DrivableCells \cup {<<0, 1>>},
        t \in 0..MaxStartTime,
        ob \in {<<{}, DefaultPersistence>>}
                 \cup {<<{<<1, 0>>}, n>> : n \in 1..MaxPersistence}}

\* the objects of a fresh construction around the table tbl
Fresh(tbl) ==
    LET w == NewWorld(CHOOSE cfg \in Configs : cfg.initial_parked_cars = 0)
    IN /\ sim = w.sim
       /\ pm = w.pm
       /\ rt = tbl
       /\ cars = w.cars
       /\ config = w.config
       /\ prev_positions = w.sim.car_positions
       /\ plan_calls = <<>>

(* ReservationTable: the methods called on one table *)

InitTable == Fresh(EmptyTable) /\ op = [name |-> "init"]

ReservePath ==
    \E path \in PlannerPaths :
        /\ Cardinality(rt.vertex_reservations \cup PathVertices(path)) <= MaxReserved
        /\ Cardinality(rt.edge_reservations \cup PathEdges(path)) <= MaxReserved
        /\ rt' = reserve_path(rt, path)
        /\ op' = [name |-> "reserve_path", path |-> path, before |-> rt]
        /\ UNCHANGED <<sim, pm, cars, config, prev_positions, plan_calls>>

\* origin is the table before the reserve_path(path) this call follows, if it
\* follows one, and the table before this call otherwise
UnreservePath ==
    \E path \in PlannerPaths :
        LET undoes == op.name = "reserve_path" /\ op.path = path
        IN /\ rt' = unreserve_path(rt, path)
           /\ op' = [name |-> "unreserve_path", path |-> path, before |-> rt,
                     undoes |-> undoes, origin |-> IF undoes THEN op.before ELSE rt]
           /\ UNCHANGED <<sim, pm, cars, config, prev_positions, plan_calls>>

ReserveGoal ==
    \E c \in parking_cells :
        /\ Cardinality(rt.static_cells \cup {c}) <= MaxStatic
        /\ rt' = reserve_goal(rt, c[1], c[2])
        /\ op' = [name |-> "reserve_goal", cell |-> c, before |-> rt]
        /\ UNCHANGED <<sim, pm, cars, config, prev_positions, plan_calls>>

UnreserveGoal ==
    \E c \in parking_cells :
        /\ rt' = unreserve_goal(rt, c[1], c[2])
        /\ op' = [name |-> "unreserve_goal", cell |-> c, before |-> rt]
        /\ UNCHANGED <<sim, pm, cars, config, prev_positions, plan_calls>>

NextTable ==
    \/ ReservePath
    \/ UnreservePath
    \/ ReserveGoal
    \/ UnreserveGoal

SpecTable == InitTable /\ [][NextTable]_vars

(* single_agent_a_star: one query on one table *)

InitPlanner ==
    \E tbl \in PlannerTables :
        /\ Fresh(tbl)
        /\ \E q \in PlannerQueries(tbl) : op = [name |-> "init", query |-> q]

\* single_agent_a_star reads the table and returns a path or None
Plan ==
    /\ plan_calls' = <<[car |-> -1, query |-> op.query,
                        result |-> single_agent_a_star(op.query)]>>
    /\ op' = [name |-> "single_agent_a_star", query |-> op.query]
    /\ UNCHANGED <<sim, pm, rt, cars, config, prev_positions>>

NextPlanner == Plan

SpecPlanner == InitPlanner /\ [][NextPlanner]_vars

(* stage 3 of _advance_cars: one conflict resolution on one tick's moves *)

\* the snapshots of cars 0..MaxCars-1, each on a drivable cell of its own
ResolvePositions ==
    {cp \in [0..(MaxCars - 1) -> DrivableCells] :
        \A a, b \in 0..(MaxCars - 1) : cp[a] = cp[b] => a = b}

\* the intended moves over a snapshot: an active car stays or makes one of the
\* moves onto a drivable cell, a car that is not active stays
ResolveIntents(cp, active) ==
    {im \in [DOMAIN cp -> DrivableCells] :
        \A c \in DOMAIN cp :
            IF c \in active THEN manhattan(im[c], cp[c]) <= 1 ELSE im[c] = cp[c]}

InitResolve ==
    /\ Fresh(EmptyTable)
    /\ \E cp \in ResolvePositions, active \in SUBSET (0..(MaxCars - 1)) :
         \E im \in ResolveIntents(cp, active) :
            op = [name |-> "init", current_positions |-> cp, active |-> active,
                  intended_moves |-> im]

\* lines 342-414: active_moves starts as a copy of intended_moves and is
\* resolved; the dict holds the active cars first, then the others
Resolve ==
    /\ op.name = "init"
    /\ op' = [name |-> "resolve_conflicts",
              current_positions |-> op.current_positions,
              intended_moves |-> op.intended_moves,
              active_moves |->
                  ResolveConflicts(op.current_positions,
                                   Ascending(op.active)
                                     \o Ascending((DOMAIN op.current_positions) \ op.active),
                                   op.intended_moves),
              rounds |->
                  ResolveRounds(op.current_positions,
                                Ascending(op.active)
                                  \o Ascending((DOMAIN op.current_positions) \ op.active),
                                op.intended_moves)]
    /\ UNCHANGED <<sim, pm, rt, cars, config, prev_positions, plan_calls>>

NextResolve == Resolve

SpecResolve == InitResolve /\ [][NextResolve]_vars

-----------------------------------------------------------------------------
(* Properties of the simulation, over the snapshots before and after a step() *)

\* the cars present in the snapshot both before and after the last step()
InBoth == (DOMAIN prev_positions) \cap (DOMAIN sim.car_positions)

\* the cars of InBoth whose cell changed in the last step()
Moved == {c \in InBoth : prev_positions[c] # sim.car_positions[c]}

\* C1: after every step(), two distinct cars of the position snapshot share
\* a cell only if the cell's kind is EXIT
C1_NoVertexConflict ==
    op.name = "step" =>
        \A a, b \in DOMAIN sim.car_positions :
            (a # b /\ sim.car_positions[a] = sim.car_positions[b])
                => is_exit_cell(sim.car_positions[a])

\* a step() in which a car that wanted to move was held back by the conflict
\* resolution, next to another car of the snapshot
C1_Witness ==
    /\ op.name = "step"
    /\ \E a \in sim.active_cars, b \in DOMAIN sim.car_positions :
          /\ a # b
          /\ cars[a].blocked_count > 0
          /\ manhattan(sim.car_positions[a], sim.car_positions[b]) = 1

C3_ValidMotion ==
    op.name = "step" =>
        \A c \in InBoth :
            manhattan(prev_positions[c], sim.car_positions[c]) \in {0, 1}

\* a step() in which one car moved by one cell and another stayed in place
C3_Witness ==
    /\ op.name = "step"
    /\ \E a \in Moved, b \in InBoth \ Moved :
          manhattan(prev_positions[a], sim.car_positions[a]) = 1

\* C4: after initialization and after every step(), every position of the
\* snapshot is an in-bounds cell whose kind is not WALL
C4_Drivable ==
    \A c \in DOMAIN sim.car_positions :
        /\ in_bounds(sim.car_positions[c][1], sim.car_positions[c][2])
        /\ CellType(sim.car_positions[c][1], sim.car_positions[c][2]) # "WALL"

\* a step() that moved a car along a planned path onto a ROAD cell
C4_Witness ==
    /\ op.name = "step"
    /\ \E c \in Moved :
          CellType(sim.car_positions[c][1], sim.car_positions[c][2]) = "ROAD"

\* C5: a car on an EXIT cell before a step() is on an EXIT cell or absent from
\* the snapshot after it
C5_ExitAbsorbing ==
    op.name = "step" =>
        \A c \in DOMAIN prev_positions :
            is_exit_cell(prev_positions[c]) =>
                \/ c \notin DOMAIN sim.car_positions
                \/ is_exit_cell(sim.car_positions[c])

\* a step() before which a car stood on an EXIT cell
C5_Witness ==
    /\ op.name = "step"
    /\ \E c \in DOMAIN prev_positions : is_exit_cell(prev_positions[c])

(* Properties of the ParkingManager's slot sets *)

\* set(assigned_spots.values())
AssignedValues == {pm.assigned_spots[c] : c \in DOMAIN pm.assigned_spots}

\* C6: after initialization and after every step(), the union of free_spots,
\* the values of assigned_spots and occupied_spots is parking_cells, the slot
\* under a waiting initial EXIT car included
C6_ParkingConservation ==
    pm.free_spots \cup AssignedValues \cup pm.occupied_spots = parking_cells

\* C7: after initialization and after every step(), free_spots, the values of
\* assigned_spots and occupied_spots are pairwise disjoint, and no slot is
\* assigned to two different cars
C7_SlotSetsDisjoint ==
    /\ pm.free_spots \cap AssignedValues = {}
    /\ pm.free_spots \cap pm.occupied_spots = {}
    /\ AssignedValues \cap pm.occupied_spots = {}
    /\ \A a, b \in DOMAIN pm.assigned_spots :
          pm.assigned_spots[a] = pm.assigned_spots[b] => a = b

\* a step() after which two cars hold an assigned slot, a slot is occupied and
\* a woken initial car has had its slot returned to free_spots
C7_Witness ==
    /\ op.name = "step"
    /\ Cardinality(DOMAIN pm.assigned_spots) >= 2
    /\ pm.occupied_spots # {}
    /\ \E c \in DOMAIN cars :
          cars[c].is_initial /\ c \notin Range(sim.waiting_active_cars)

(* Properties of the planning API *)

\* C8: for every table and every path p, reserve_path(p) followed by
\* unreserve_path(p) leaves the vertex, edge and static sets as they were
\* before the two calls
C8_ReserveUnreserveIdentity ==
    (op.name = "unreserve_path" /\ op.undoes) => rt = op.origin

\* p has no vertex and no edge in common with the table tbl
Unreserved(tbl, p) ==
    /\ PathVertices(p) \cap tbl.vertex_reservations = {}
    /\ PathEdges(p) \cap tbl.edge_reservations = {}

\* C8, amended: reserve_path(p) followed by unreserve_path(p) leaves the
\* static set as it was and the vertex and edge sets as they were less the
\* vertices and edges of p; the table is as it was before the two calls
\* exactly when none of p's vertices and edges was reserved before them
C8_RoundTripRemovesPath ==
    (op.name = "unreserve_path" /\ op.undoes) =>
        /\ rt = [op.origin EXCEPT
                    !.vertex_reservations = @ \ PathVertices(op.path),
                    !.edge_reservations = @ \ PathEdges(op.path)]
        /\ (rt = op.origin) <=> Unreserved(op.origin, op.path)

\* reserve_path(p); unreserve_path(p) for a p of two entries, on a table that
\* holds a static cell and another reservation but none of p's
C8_Witness ==
    /\ op.name = "unreserve_path"
    /\ op.undoes
    /\ Len(op.path) = 2
    /\ op.origin.vertex_reservations # {}
    /\ op.origin.static_cells # {}
    /\ Unreserved(op.origin, op.path)

\* the calls of the last operation that returned a path
Returned == {i \in DOMAIN plan_calls : plan_calls[i].result # None}

\* C9: a path single_agent_a_star returns starts with (start, start_time),
\* ends on the goal cell, and each entry follows the one before it by one
\* tick and a Manhattan distance of 0 or 1
C9_PathShape ==
    \A i \in Returned :
        LET q == plan_calls[i].query
            path == plan_calls[i].result
        IN /\ Len(path) >= 1
           /\ path[1] = <<q.start[1], q.start[2], q.start_time>>
           /\ <<path[Len(path)][1], path[Len(path)][2]>> = q.goal
           /\ \A k \in 2..Len(path) :
                 /\ path[k][3] = path[k - 1][3] + 1
                 /\ manhattan(path[k], path[k - 1]) \in {0, 1}

\* a returned path that waits in place for a tick and then moves on
C9_Witness ==
    \E i \in Returned :
        LET path == plan_calls[i].result
        IN /\ Len(path) >= 3
           /\ \E k \in 2..Len(path) : manhattan(path[k], path[k - 1]) = 0
           /\ \E k \in 2..Len(path) : manhattan(path[k], path[k - 1]) = 1

\* C10: no entry after the first of a returned path is on a WALL cell, on an
\* EXIT cell other than the goal, or on an ENTRY cell other than the start or
\* the goal
C10_CellKinds ==
    \A i \in Returned :
        LET q == plan_calls[i].query
            path == plan_calls[i].result
        IN \A k \in 2..Len(path) :
              LET c == <<path[k][1], path[k][2]>>
                  kind == CellType(c[1], c[2])
              IN /\ kind # "WALL"
                 /\ kind = "EXIT" => c = q.goal
                 /\ kind = "ENTRY" => (c = q.start \/ c = q.goal)

\* a returned path of at least three entries from one ENTRY cell to the other
C10_Witness ==
    \E i \in Returned :
        LET q == plan_calls[i].query
        IN /\ Len(plan_calls[i].result) >= 3
           /\ CellType(q.start[1], q.start[2]) = "ENTRY"
           /\ CellType(q.goal[1], q.goal[2]) = "ENTRY"
           /\ q.start # q.goal

\* C11: for every entry after the first of a returned path, at planning time
\* its cell is not in static_cells, its (x, y, t) is not in vertex_reservations,
\* and neither the edge from the entry before it nor the reverse edge is in
\* edge_reservations
C11_AvoidsReservations ==
    \A i \in Returned :
        LET tbl == plan_calls[i].query.table
            path == plan_calls[i].result
        IN \A k \in 2..Len(path) :
              LET a == path[k - 1]
                  b == path[k]
              IN /\ <<b[1], b[2]>> \notin tbl.static_cells
                 /\ b \notin tbl.vertex_reservations
                 /\ <<a[1], a[2], b[1], b[2], a[3]>> \notin tbl.edge_reservations
                 /\ <<b[1], b[2], a[1], a[2], a[3]>> \notin tbl.edge_reservations

\* a returned path of at least three entries planned on a table that holds
\* vertex, edge and static reservations, one of them on a cell the path crosses
\* at another tick
C11_Witness ==
    \E i \in Returned :
        LET tbl == plan_calls[i].query.table
            path == plan_calls[i].result
        IN /\ Len(path) >= 3
           /\ tbl.static_cells # {}
           /\ tbl.edge_reservations # {}
           /\ \E v \in tbl.vertex_reservations :
                 \E k \in 2..Len(path) :
                     <<path[k][1], path[k][2]>> = <<v[1], v[2]>> /\ path[k][3] # v[3]

\* the cells an admissible path from (q.start, q.start_time) can stand on k
\* ticks later: each step is one of the moves and passes the successor checks
RECURSIVE ReachableAt(_, _)
ReachableAt(q, k) ==
    IF k = 0 THEN {q.start}
    ELSE LET prev == ReachableAt(q, k - 1)
         IN {n \in AllCells :
               \E c \in prev, i \in 1..Len(Moves) :
                   /\ n = <<c[1] + Moves[i][1], c[2] + Moves[i][2]>>
                   /\ Admissible(q, c[1], c[2], q.start_time + k - 1, n[1], n[2])}

\* the numbers of ticks after which an admissible path can stand on the goal
\* within the horizon
Arrivals(q) ==
    {k \in 0..(q.max_time - q.start_time) : q.goal \in ReachableAt(q, k)}

\* the calls whose start is a drivable cell that is no ephemeral obstacle
FromValidStart ==
    {i \in DOMAIN plan_calls :
        /\ is_drivable(CellType(plan_calls[i].query.start[1], plan_calls[i].query.start[2]))
        /\ plan_calls[i].query.start \notin plan_calls[i].query.obstacles}

\* C12: from a start that is no ephemeral obstacle, single_agent_a_star returns
\* None exactly when no admissible path reaches the goal at a tick up to
\* start_time + planning_horizon, and otherwise an admissible path that arrives
\* at the least such tick
C12_FindsEarliestArrival ==
    \A i \in FromValidStart :
        LET q == plan_calls[i].query
            path == plan_calls[i].result
        IN /\ (path = None) <=> (Arrivals(q) = {})
           /\ path # None =>
                 /\ path[Len(path)][3] <= q.max_time
                 /\ \A k \in Arrivals(q) : path[Len(path)][3] <= q.start_time + k
                 /\ \A k \in 2..Len(path) :
                       /\ \E m \in 1..Len(Moves) :
                             /\ path[k][1] = path[k - 1][1] + Moves[m][1]
                             /\ path[k][2] = path[k - 1][2] + Moves[m][2]
                       /\ Admissible(q, path[k - 1][1], path[k - 1][2], path[k - 1][3],
                                     path[k][1], path[k][2])

\* a returned path that arrives later than the Manhattan distance allows and
\* on the last tick of the horizon
C12_Witness ==
    \E i \in FromValidStart :
        LET q == plan_calls[i].query
            path == plan_calls[i].result
        IN /\ path # None
           /\ path[Len(path)][3] = q.max_time
           /\ path[Len(path)][3] > q.start_time + manhattan(q.start, q.goal)

\* the cars a step moves onto an EXIT cell
ArrivedOnExit ==
    {c \in DOMAIN cars : ~is_exit_cell(cars[c].position) /\ is_exit_cell(cars'[c].position)}

\* C13: a car that reaches its EXIT goal in a step is out of the active set
\* after that step and is in the snapshot after it, at the exit cell; a car
\* that stood on an EXIT cell before a step is in no snapshot after that step
C13_ExitShownOnce ==
    [][/\ \A c \in ArrivedOnExit :
            /\ cars'[c].position = cars'[c].goal
            /\ c \notin sim'.active_cars
            /\ c \in DOMAIN sim'.car_positions
            /\ sim'.car_positions[c] = cars'[c].position
       /\ \A c \in DOMAIN cars :
            is_exit_cell(cars[c].position) => c \notin DOMAIN sim'.car_positions]_vars

\* after a step one car is shown on the exit cell it has just reached while a
\* car that exited in an earlier step is gone from the snapshot
C13_Witness ==
    /\ op.name = "step"
    /\ \E c \in sim.cars_pending_removal :
          /\ c \in DOMAIN sim.car_positions
          /\ is_exit_cell(sim.car_positions[c])
          /\ c \in DOMAIN prev_positions
          /\ ~is_exit_cell(prev_positions[c])
    /\ \E d \in sim.exited_car_ids :
          d \notin sim.cars_pending_removal /\ d \notin DOMAIN sim.car_positions

\* C14: run() has returned only after a step at whose end the active set is
\* empty and either arriving_cars_created >= max_arriving_cars or
\* arrival_lambda = 0, and it has returned after the first such step: while it
\* is still in its loop the last step did not end so
C14_RunReturnsWhenDrained ==
    LET drained == /\ sim.active_cars = {}
                   /\ \/ sim.arriving_cars_created >= config.max_arriving_cars
                      \/ config.arrival_lambda = 0
    IN /\ op.name = "run" => (drained /\ op.result.final_time = sim.time)
       /\ op.name = "step" => ~drained

\* run() has returned after more than one step, by arrival_lambda = 0 alone:
\* fewer cars than max_arriving_cars were created
C14_Witness ==
    /\ op.name = "run"
    /\ sim.time > 1
    /\ sim.exited_car_ids # {}
    /\ config.arrival_lambda = 0
    /\ sim.arriving_cars_created < config.max_arriving_cars

\* C15: with arrival_lambda = 0, no initial active cars and only initial
\* parked cars, run() returns at tick 0: the final_time it reports is 0
C15_ParkedOnlyRunEndsAtTickZero ==
    (/\ op.name = "run"
     /\ config.arrival_lambda = 0
     /\ config.initial_active_cars = 0
     /\ config.initial_parked_cars > 0)
        => op.result.final_time = 0

\* C16: in a pure evacuation run (initial active cars only, no arrivals), once
\* every car has been woken and has exited, total_arrived is the number of cars
C16_EvacuationCountsEachCarOnce ==
    (/\ config.initial_parked_cars = 0
     /\ config.initial_active_cars > 0
     /\ config.arrival_lambda = 0
     /\ config.max_arriving_cars = 0
     /\ sim.active_cars = {}
     /\ Cardinality(sim.exited_car_ids) = config.initial_active_cars)
        => sim.total_arrived = config.initial_active_cars

\* C17: every planner invocation of a step that returns no path adds one to
\* total_failed_plans, for a newly handled car and for a replanned car alike
C17_FailedPlansCounted ==
    [][sim'.total_failed_plans >=
           sim.total_failed_plans
             + Cardinality({i \in DOMAIN plan_calls' : plan_calls'[i].result = None})]_vars

\* the cells held by parked cars: shown in the snapshot, never in the active set,
\* so never moved again
ParkedCells ==
    {sim.car_positions[c] : c \in {d \in DOMAIN sim.car_positions :
                                     /\ d \notin sim.active_cars
                                     /\ d \notin sim.cars_pending_removal}}

\* the cells from which a cell of S is reached through drivable cells no parked
\* car holds
RECURSIVE Flood(_)
Flood(S) ==
    LET more == {c \in DrivableCells \ (S \cup ParkedCells) :
                   \E d \in S : manhattan(c, d) = 1}
    IN IF more = {} THEN S ELSE Flood(S \cup more)

\* the woken or arrived cars of the active set
Driving == {c \in sim.active_cars : c \notin Range(sim.waiting_active_cars)}

\* C18: every car of the active set eventually leaves it; a car that is to leave
\* has a way to an exit that no parked car closes, parked cars staying where they
\* are for the rest of the run
C18_ActiveCarsCanLeave ==
    \A c \in Driving : sim.car_positions[c] \in Flood(exit_cells \ ParkedCells)

\* the car the last step spawned, if any: spawn_time is the tick of that step
NewArrivals ==
    {c \in DOMAIN cars : /\ ~cars[c].is_initial
                         /\ cars[c].spawn_time >= 0
                         /\ cars[c].spawn_time = sim.time - 1}

\* the ticks _get_free_entry looked at in the last step
EntryWindow == (sim.time - 1)..(sim.time - 1 + CheckHorizon - 1)

\* the reservation tables the planner was handed for car c in the last step; a
\* new arrival is planned once, with the table of the arrival stage
TablesSeenBy(c) ==
    {plan_calls[i].query.table : i \in {j \in DOMAIN plan_calls : plan_calls[j].car = c}}

\* C19: a car spawned in the step at tick t stands on an entry cell that no other
\* car of the snapshot holds and that is free in the reservation table of the
\* arrival stage (not static, no vertex reservation) at every tick t..t+19; so no
\* other car has a path over that entry in the window
C19_EntryAdmission ==
    \A c \in NewArrivals :
      LET E == sim.car_positions[c]
      IN /\ E \in entry_cells
         /\ \A d \in (DOMAIN sim.car_positions) \ {c} : sim.car_positions[d] # E
         /\ TablesSeenBy(c) # {}
         /\ \A tbl \in TablesSeenBy(c) :
              /\ E \notin tbl.static_cells
              /\ \A t \in EntryWindow : <<E[1], E[2], t>> \notin tbl.vertex_reservations
         /\ \A d \in (DOMAIN cars) \ {c} :
              \A i \in DOMAIN cars[d].path :
                \A t \in EntryWindow : cars[d].path[i] # <<E[1], E[2], t>>

\* a car is spawned on one entry while the other entry, with no car on it, is
\* kept closed by the reservation of an earlier arrival that has just driven off it
C19_Witness ==
    \E c \in NewArrivals :
      \E E2 \in entry_cells \ {sim.car_positions[c]} :
        /\ \A d \in DOMAIN sim.car_positions : sim.car_positions[d] # E2
        /\ \E d \in (DOMAIN cars) \ {c} :
             /\ ~cars[d].is_initial
             /\ \E i \in DOMAIN cars[d].path :
                  \E t \in EntryWindow : cars[d].path[i] = <<E2[1], E2[2], t>>
        /\ \E tbl \in TablesSeenBy(c) :
             \E t \in EntryWindow : <<E2[1], E2[2], t>> \in tbl.vertex_reservations

\* C20: a step creates at most one arriving car, and creates one only if
\* arriving_cars_created was below max_arriving_cars and free_spots was not empty
\* at the arrival stage (the new car holds the slot it drew from free_spots);
\* arriving_cars_created never exceeds max_arriving_cars
C20_ArrivalsCapped ==
    [][LET created == (DOMAIN cars') \ (DOMAIN cars)
       IN /\ Cardinality(created) <= 1
          /\ sim'.arriving_cars_created = sim.arriving_cars_created + Cardinality(created)
          /\ sim'.arriving_cars_created <= config'.max_arriving_cars
          /\ \A c \in created :
               /\ sim.arriving_cars_created < config.max_arriving_cars
               /\ c \in DOMAIN pm'.assigned_spots
               /\ pm'.assigned_spots[c] \in parking_cells
               /\ pm'.assigned_spots[c] \notin pm'.free_spots
               /\ cars'[c].goal = pm'.assigned_spots[c]]_vars

\* the last step created the car that reaches max_arriving_cars and takes the last
\* free slot
C20_Witness ==
    /\ NewArrivals # {}
    /\ sim.arriving_cars_created = config.max_arriving_cars
    /\ pm.free_spots = {}

\* the ticks a reservation is asked about: from the first tick to the end of the
\* window _get_free_entry looks at in the last step
Ticks == 0..(MaxTime + CheckHorizon)

\* the cars that parked during the run
ParkedArrivals ==
    {c \in DOMAIN sim.car_positions : /\ c \notin sim.active_cars
                                      /\ c \notin sim.cars_pending_removal
                                      /\ cars[c].spawn_time >= 0}

\* C21: a cell reserved by reserve_goal is free at no tick, early or late, while it
\* is in static; the cell of a parked car is reserved that way and stays so, and
\* from the step the car parked no other car is ever on that cell
C21_ParkedSlotKept ==
    [][/\ \A c \in rt.static_cells : \A t \in Ticks : ~is_cell_free(rt, c[1], c[2], t)
       /\ \A c \in DOMAIN sim.car_positions :
            (c \notin sim.active_cars /\ c \notin sim.cars_pending_removal)
            => /\ sim.car_positions[c] \in rt.static_cells
               /\ sim.car_positions[c] \in rt'.static_cells
               /\ c \in DOMAIN sim'.car_positions
               /\ sim'.car_positions[c] = sim.car_positions[c]
               /\ c \notin sim'.active_cars
               /\ \A d \in (DOMAIN sim.car_positions) \ {c} :
                    sim.car_positions[d] # sim.car_positions[c]
               /\ \A d \in (DOMAIN sim'.car_positions) \ {c} :
                    sim'.car_positions[d] # sim.car_positions[c]]_vars

\* a car that arrived during the run is parked while another car is driving
C21_Witness ==
    /\ ParkedArrivals # {}
    /\ Driving # {}
    /\ \E c \in ParkedArrivals : sim.time >= cars[c].spawn_time + 4

\* the query q with its ephemeral obstacles written as what the claim says they
\* are: each obstacle cell closed at the arrival ticks below start_time +
\* persistence, that is start_time + 1 .. start_time + persistence - 1, and open
\* at every other tick
ObstaclesAsClosedTicks(q) ==
    [q EXCEPT !.obstacles = {},
              !.table.vertex_reservations =
                  @ \cup {<<o[1], o[2], nt>> :
                            o \in q.obstacles,
                            nt \in (q.start_time + 1)..(q.start_time + q.persistence - 1)}]

\* C22: an ephemeral obstacle closes its cell to a successor exactly at the
\* arrival ticks below start_time + obstacle_persistence: the planner answers a
\* query as it answers the query in which the obstacle cells are closed at those
\* ticks and at no other, and no returned path steps onto or waits on an obstacle
\* cell before start_time + obstacle_persistence
C22_ObstaclesExpire ==
    \A i \in FromValidStart :
        LET q == plan_calls[i].query
            path == plan_calls[i].result
        IN /\ path = single_agent_a_star(ObstaclesAsClosedTicks(q))
           /\ path # None =>
                \A k \in 2..Len(path) :
                    <<path[k][1], path[k][2]>> \in q.obstacles
                    => path[k][3] >= q.start_time + q.persistence

\* a returned path that steps onto an obstacle cell at the first tick it is
\* open, start_time + obstacle_persistence, one tick at least after the start of
\* the first move
C22_Witness ==
    \E i \in FromValidStart :
        LET q == plan_calls[i].query
            path == plan_calls[i].result
        IN /\ path # None
           /\ q.persistence >= 2
           /\ \E k \in 2..Len(path) :
                /\ <<path[k][1], path[k][2]>> \in q.obstacles
                /\ <<path[k - 1][1], path[k - 1][2]>> \notin q.obstacles
                /\ path[k][3] = q.start_time + q.persistence

\* the cars that intend the cell pos in the resolved tick
Contenders(pos) == {c \in DOMAIN op.intended_moves : op.intended_moves[c] = pos}

\* C23: when two or more cars intend the same cell, then if one of them stands on
\* it, that car ends the tick there and no other car does; otherwise no contender
\* but the one with the smallest car_id ends the tick there; and every contender
\* that does not end the tick on the cell ends it where it stood before
C23_VertexConflictWinner ==
    op.name = "resolve_conflicts" =>
      \A pos \in DrivableCells :
        Cardinality(Contenders(pos)) >= 2 =>
          LET there == {c \in Contenders(pos) : op.current_positions[c] = pos}
              least == CHOOSE c \in Contenders(pos) : \A d \in Contenders(pos) : c <= d
          IN /\ there # {} =>
                  \A c \in DOMAIN op.active_moves :
                      op.active_moves[c] = pos <=> c \in there
             /\ there = {} =>
                  \A c \in Contenders(pos) : op.active_moves[c] = pos => c = least
             /\ \A c \in Contenders(pos) :
                  \/ op.active_moves[c] = pos
                  \/ op.active_moves[c] = op.current_positions[c]

\* three cars intend one empty cell and the one with the smallest car_id gets it
C23_Witness ==
    /\ op.name = "resolve_conflicts"
    /\ \E pos \in DrivableCells :
         /\ Cardinality(Contenders(pos)) >= 3
         /\ \A c \in Contenders(pos) : op.current_positions[c] # pos
         /\ \E c \in Contenders(pos) :
              /\ op.active_moves[c] = pos
              /\ \A d \in Contenders(pos) : c <= d

\* the path car c holds when _advance_cars reads the intended moves of a step: the
\* path the planner returned for it in this step if it returned one, else the
\* path it held before the step
PathAtPeek(c) ==
    LET ok == {i \in DOMAIN plan_calls' : /\ plan_calls'[i].car = c
                                          /\ plan_calls'[i].result # None}
    IN IF ok = {} THEN cars[c].path
       ELSE plan_calls'[CHOOSE i \in ok : \A j \in ok : j <= i].result

\* the cursor into that path
CursorAtPeek(c) ==
    IF PathAtPeek(c) = cars[c].path THEN cars[c].current_step ELSE 0

\* intended_moves[c] of a step (lines 328-340)
IntendedOf(c) ==
    IF c \notin sim.active_cars THEN sim.car_positions[c]
    ELSE LET car == [cars[c] EXCEPT !.path = PathAtPeek(c), !.current_step = CursorAtPeek(c)]
             next_pos == peek_at_next_step(car, sim.time)
         IN IF next_pos = None THEN car.position ELSE next_pos

\* the cars a step reverts: they intended to move and stand where they stood
RevertedCars ==
    {c \in sim.active_cars : /\ IntendedOf(c) # sim.car_positions[c]
                             /\ sim'.car_positions[c] = sim.car_positions[c]}

\* the cars a step creates
SpawnedCars == (DOMAIN cars') \ (DOMAIN cars)

\* the vertex and edge reservations of the paths planned for the cars a step
\* creates: the arrival stage comes after the moves are applied
SpawnedVertices == UNION {PathVertices(cars'[d].path) : d \in SpawnedCars}
SpawnedEdges == UNION {PathEdges(cars'[d].path) : d \in SpawnedCars}

\* what a step does to every car it reverts, but for the cursor; a reservation
\* of the cancelled path that is in the table after the step is one the arrival
\* stage made anew for the path of the car it created
RevertedPlanCancelled ==
    \A c \in RevertedCars :
        /\ cars'[c].position = cars[c].position
        /\ PathAtPeek(c) # <<>>
        /\ PathVertices(PathAtPeek(c)) \cap rt'.vertex_reservations \subseteq SpawnedVertices
        /\ PathEdges(PathAtPeek(c)) \cap rt'.edge_reservations \subseteq SpawnedEdges
        /\ cars'[c].path = <<>>
        /\ cars'[c].blocked_count = cars[c].blocked_count + 1

\* C24 as stated: a car that conflict resolution reverts keeps its position and
\* its path cursor, loses every vertex and edge reservation of its path and the
\* path itself, and its blocked_count grows by one
C24_RevertedKeepsCursor ==
    [][/\ RevertedPlanCancelled
       /\ \A c \in RevertedCars : cars'[c].current_step = CursorAtPeek(c)]_vars

\* C24, amended: a car that conflict resolution reverts keeps its position, loses
\* every vertex and edge reservation of its path and the path itself, its
\* blocked_count grows by one, and its cursor is not advanced: it is back at 0
C24_RevertedCursorReset ==
    [][/\ RevertedPlanCancelled
       /\ \A c \in RevertedCars : cars'[c].current_step = 0]_vars

\* after a step a car stands where it stood, blocked for the first time, without
\* a path, next to the car on the cell it was to enter
C24_Witness ==
    /\ op.name = "step"
    /\ \E c \in sim.active_cars :
         /\ cars[c].blocked_count = 1
         /\ cars[c].path = <<>>
         /\ c \in DOMAIN prev_positions
         /\ prev_positions[c] = sim.car_positions[c]
         /\ \E d \in (DOMAIN sim.car_positions) \ {c} :
              manhattan(sim.car_positions[d], sim.car_positions[c]) = 1

\* the PARK cars that a step brings to rest on their goal slot, by a move onto it
\* or at the end of a path on it
ReachedSlot ==
    {c \in sim.active_cars : /\ cars'[c].intent = "PARK"
                             /\ cars'[c].goal # None
                             /\ sim'.car_positions[c] = cars'[c].goal}

\* C25: a PARK car that reaches its goal slot in a step holds no assignment after
\* the step and the slot is occupied and static, no reservation of its path is
\* left, total_parked has grown by one for each such car, the car is out of the
\* active set and in the snapshot on the slot; and a car that has parked is on
\* its slot in every later snapshot
C25_ParkingCompletes ==
    [][/\ \A c \in ReachedSlot :
            LET slot == cars'[c].goal
            IN /\ c \notin DOMAIN pm'.assigned_spots
               /\ slot \in pm'.occupied_spots
               /\ slot \notin pm'.free_spots
               /\ PathVertices(PathAtPeek(c)) \cap rt'.vertex_reservations = {}
               /\ PathEdges(PathAtPeek(c)) \cap rt'.edge_reservations = {}
               /\ cars'[c].path = <<>>
               /\ slot \in rt'.static_cells
               /\ c \notin sim'.active_cars
               /\ c \in DOMAIN sim'.car_positions
       /\ sim'.total_parked = sim.total_parked + Cardinality(ReachedSlot)
       /\ \A c \in ParkedArrivals :
            /\ c \in DOMAIN sim'.car_positions
            /\ sim'.car_positions[c] = sim.car_positions[c]
            /\ c \notin sim'.active_cars]_vars

\* the last step parked a car on the slot it stood on: the car had given up its
\* goal, was given the slot under it and finished the one-entry path planned in
\* that step
C25_Witness ==
    /\ op.name = "step"
    /\ \E c \in ParkedArrivals :
         /\ prev_positions[c] = sim.car_positions[c]
         /\ sim.car_positions[c] \in pm.occupied_spots \cap rt.static_cells
         /\ c \notin DOMAIN pm.assigned_spots
         /\ \E i \in DOMAIN plan_calls :
              /\ plan_calls[i].car = c
              /\ plan_calls[i].result =
                   << <<sim.car_positions[c][1], sim.car_positions[c][2], sim.time - 1>> >>

\* the cars a step wakes: on the waiting list before it and off it after
WokenCars ==
    {c \in Range(sim.waiting_active_cars) : c \notin Range(sim'.waiting_active_cars)}

\* the planner calls of a step for car c, in the order they were made
CallsFor(c) == {i \in DOMAIN plan_calls' : plan_calls'[i].car = c}

\* C26: a waiting initial car woken in the step at tick t is off the waiting list,
\* has an exit cell as goal, and was planned in that step from its cell with
\* start_time = t on a table in which the cell is no longer static, so that a
\* path returned begins with (cell, t); its cell has gone back to the slots: after
\* the step it is free or held by a car that was given it in the same step
C26_WakeUp ==
    [][\A c \in WokenCars :
         LET cell == sim.car_positions[c]
             first == CHOOSE i \in CallsFor(c) : \A j \in CallsFor(c) : i <= j
             call == plan_calls'[first]
         IN /\ cell \in rt.static_cells
            /\ cell \notin pm.free_spots
            /\ cars'[c].intent = "EXIT"
            /\ cars'[c].goal \in exit_cells
            /\ CallsFor(c) # {}
            /\ call.query.start = cell
            /\ call.query.start_time = sim.time
            /\ call.query.goal \in exit_cells
            /\ cell \notin call.query.table.static_cells
            /\ call.result # None => call.result[1] = <<cell[1], cell[2], sim.time>>
            /\ \/ cell \in pm'.free_spots
               \/ \E d \in DOMAIN pm'.assigned_spots : pm'.assigned_spots[d] = cell
               \/ cell \in pm'.occupied_spots]_vars

\* after a step an initial car is off the waiting list with a path that begins on
\* its slot at the tick of the step, and the slot is free and not static
C26_Witness ==
    /\ op.name = "step"
    /\ \E i \in DOMAIN plan_calls :
         LET c == plan_calls[i].car
             q == plan_calls[i].query
         IN /\ cars[c].is_initial
            /\ c \notin Range(sim.waiting_active_cars)
            /\ q.start_time = sim.time - 1
            /\ plan_calls[i].result # None
            /\ plan_calls[i].result[1] = <<q.start[1], q.start[2], sim.time - 1>>
            /\ q.start \in pm.free_spots
            /\ q.start \notin rt.static_cells
            /\ sim.total_planned = 1

\* car c is in w as it is in the current objects: same cell, same path, active
Untouched(w, c) ==
    /\ c \in DOMAIN w.sim.car_positions
    /\ w.sim.car_positions[c] = sim.car_positions[c]
    /\ w.cars[c].position = cars[c].position
    /\ w.cars[c].path = cars[c].path
    /\ w.cars[c].current_step = cars[c].current_step
    /\ c \in w.sim.active_cars

\* C27: a car spawned by the arrival stage of the step at tick t is on its entry
\* cell in the snapshot after the step, was planned once, from that cell with
\* start_time = t + 1, and a path returned begins with (entry, t + 1); in the step
\* at tick t + 1 the stages before the advance stage (clean-up, wake-up) leave
\* its position and its path as they are
C27_ArrivalMovesNextTick ==
    [][/\ \A c \in SpawnedCars :
            LET E == sim'.car_positions[c]
            IN /\ E \in entry_cells
               /\ cars'[c].position = E
               /\ cars'[c].spawn_time = sim.time
               /\ sim'.time = sim.time + 1
               /\ Cardinality(CallsFor(c)) = 1
               /\ \A i \in CallsFor(c) :
                    /\ plan_calls'[i].query.start = E
                    /\ plan_calls'[i].query.start_time = sim.time + 1
                    /\ plan_calls'[i].result # None
                       => /\ plan_calls'[i].result[1] = <<E[1], E[2], sim.time + 1>>
                          /\ cars'[c].path = plan_calls'[i].result
                          /\ cars'[c].current_step = 0
                    /\ plan_calls'[i].result = None => cars'[c].path = <<>>
       /\ \A c \in NewArrivals :
            \A woke \in WakeDraws, rank \in Rankings :
              Untouched(_process_waiting_active_cars(
                            _cleanup_exited_cars(World(rank, PersistenceMin)), woke), c)]_vars

\* the last step spawned a car and planned it: its path begins on the entry at
\* the tick of the next step, and the car has not moved while another car drove
C27_Witness ==
    /\ op.name = "step"
    /\ \E c \in NewArrivals :
         /\ sim.car_positions[c] \in entry_cells
         /\ Len(cars[c].path) >= 2
         /\ cars[c].path[1] = <<sim.car_positions[c][1], sim.car_positions[c][2], sim.time>>
         /\ cars[c].current_step = 0
         /\ \E d \in (DOMAIN sim.car_positions) \ {c} :
              /\ d \in DOMAIN prev_positions
              /\ prev_positions[d] # sim.car_positions[d]

\* the initial cars that wait before a step and still wait after it
StillWaiting ==
    Range(sim.waiting_active_cars) \cap Range(sim'.waiting_active_cars)

\* C28: an initial EXIT car that is on the waiting list before and after a step
\* keeps its position in the snapshot, has an empty path, is active with intent
\* EXIT, is not planned in the step, its cell is in no ephemeral-obstacle set
\* handed to the planner in the step, the cell is static before and after the
\* step and in every table the planner is handed, no path the planner returns
\* holds the cell, and no other car is on the cell before or after the step
C28_WaitingCarPinned ==
    [][\A c \in StillWaiting :
         LET cell == sim.car_positions[c]
         IN /\ cars[c].is_initial
            /\ cars'[c].intent = "EXIT"
            /\ c \in sim'.active_cars
            /\ cell \in parking_cells
            /\ sim'.car_positions[c] = cell
            /\ cars'[c].position = cell
            /\ cars[c].path = <<>>
            /\ cars'[c].path = <<>>
            /\ CallsFor(c) = {}
            /\ cell \in rt.static_cells
            /\ cell \in rt'.static_cells
            /\ \A i \in DOMAIN plan_calls' :
                 /\ cell \notin plan_calls'[i].query.obstacles
                 /\ cell \in plan_calls'[i].query.table.static_cells
                 /\ plan_calls'[i].query.goal # cell
                 /\ plan_calls'[i].result # None
                    => \A k \in DOMAIN plan_calls'[i].result :
                         <<plan_calls'[i].result[k][1], plan_calls'[i].result[k][2]>> # cell
            /\ \A d \in (DOMAIN sim.car_positions) \ {c} : sim.car_positions[d] # cell
            /\ \A d \in (DOMAIN sim'.car_positions) \ {c} : sim'.car_positions[d] # cell]_vars

\* after three steps an initial car still waits on its slot, while in the last
\* step another car drove and the planner was handed a car without a path as an
\* ephemeral obstacle
C28_Witness ==
    /\ op.name = "step"
    /\ sim.time >= 3
    /\ \E c \in Range(sim.waiting_active_cars) :
         /\ sim.car_positions[c] \in rt.static_cells
         /\ \E d \in (DOMAIN sim.car_positions) \ {c} :
              /\ d \in DOMAIN prev_positions
              /\ prev_positions[d] # sim.car_positions[d]
         /\ \E i \in DOMAIN plan_calls : plan_calls[i].query.obstacles # {}

\* the planner calls of a step that failed for a car with intent PARK: a car the
\* step spawned, or one that was a PARK car before the step
FailedParkCalls ==
    {i \in DOMAIN plan_calls' :
        /\ plan_calls'[i].result = None
        /\ \/ plan_calls'[i].car \in SpawnedCars
           \/ /\ plan_calls'[i].car \in DOMAIN cars
              /\ cars[plan_calls'[i].car].intent = "PARK"}

\* plan_fail_count of car c after the increment of a failed call of the step
CountAfter(c) == IF c \in DOMAIN cars THEN cars[c].plan_fail_count + 1 ELSE 1

\* the slot went back to the free slots: it is free after the step, or a car
\* other than c was given it later in the step
SlotBack(c, slot) ==
    \/ slot \in pm'.free_spots
    \/ \E d \in (DOMAIN pm'.assigned_spots) \ {c} : pm'.assigned_spots[d] = slot

\* a failed call with a count that is a multiple of 3 takes the slot from the car
ThirdFailureReleases ==
    \A i \in FailedParkCalls :
        LET c == plan_calls'[i].car
            slot == plan_calls'[i].query.goal
        IN /\ cars'[c].plan_fail_count = CountAfter(c)
           /\ slot \in parking_cells
           /\ CountAfter(c) % 3 = 0
              => /\ c \notin DOMAIN pm'.assigned_spots
                 /\ SlotBack(c, slot)

\* a failed call with another count below 12 leaves goal and assignment alone
OtherFailureKeeps ==
    \A i \in FailedParkCalls :
        LET c == plan_calls'[i].car
            slot == plan_calls'[i].query.goal
        IN (CountAfter(c) % 3 # 0 /\ CountAfter(c) < 12)
           => /\ cars'[c].goal = slot
              /\ cars'[c].intent = "PARK"
              /\ c \in DOMAIN pm'.assigned_spots
              /\ pm'.assigned_spots[c] = slot
              /\ slot \notin pm'.free_spots

\* C29 as stated: after a failed planning attempt for a PARK car whose
\* plan_fail_count is then a multiple of 3 the slot is back in the free slots and
\* the goal is cleared; after one with another count below 12 goal and
\* assignment are kept
C29_ThirdFailureClearsGoal ==
    [][/\ ThirdFailureReleases
       /\ OtherFailureKeeps
       /\ \A i \in FailedParkCalls :
            CountAfter(plan_calls'[i].car) % 3 = 0
            => cars'[plan_calls'[i].car].goal = None]_vars

\* C29, amended: after a failed planning attempt for a PARK car whose
\* plan_fail_count is then a multiple of 3 the slot is back in the free slots;
\* the goal is cleared when the count is below 12 and is an exit cell when the
\* count is 12; after a failure with another count below 12 goal and assignment
\* are kept
C29_ThirdFailureReleasesSlot ==
    [][/\ ThirdFailureReleases
       /\ OtherFailureKeeps
       /\ \A i \in FailedParkCalls :
            LET c == plan_calls'[i].car
            IN /\ (CountAfter(c) % 3 = 0 /\ CountAfter(c) < 12) => cars'[c].goal = None
               /\ CountAfter(c) >= 12 => cars'[c].goal \in exit_cells]_vars

\* after a step a PARK car has failed to plan three times in a row: it has no
\* goal and no slot, and the slot it was sent to in the step is free
C29_Witness ==
    /\ op.name = "step"
    /\ \E i \in DOMAIN plan_calls :
         LET c == plan_calls[i].car
         IN /\ plan_calls[i].result = None
            /\ cars[c].intent = "PARK"
            /\ cars[c].plan_fail_count = 3
            /\ cars[c].goal = None
            /\ c \notin DOMAIN pm.assigned_spots
            /\ plan_calls[i].query.goal \in pm.free_spots

\* the failed calls of a step that bring a PARK car to 12 failures in a row
TwelfthFailures == {i \in FailedParkCalls : CountAfter(plan_calls'[i].car) >= 12}

\* C30: after a failed planning attempt that brings the plan_fail_count of a PARK
\* car to 12 or more, the step leaves the car active with intent EXIT and the
\* nearest exit cell (Manhattan distance from its cell) as goal, the slot it was
\* sent to and any slot it held are back in the free slots, and the car holds no
\* assignment; no car with intent EXIT ever holds one
C30_GivesUpParking ==
    [][/\ \A i \in TwelfthFailures :
            LET c == plan_calls'[i].car
                pos == sim'.car_positions[c]
            IN /\ cars'[c].plan_fail_count = CountAfter(c)
               /\ c \in sim'.active_cars
               /\ pos = sim.car_positions[c]
               /\ cars'[c].intent = "EXIT"
               /\ cars'[c].goal \in exit_cells
               /\ \A e \in exit_cells :
                    manhattan(cars'[c].goal, pos) <= manhattan(e, pos)
               /\ c \notin DOMAIN pm'.assigned_spots
               /\ SlotBack(c, plan_calls'[i].query.goal)
               /\ c \in DOMAIN pm.assigned_spots => SlotBack(c, pm.assigned_spots[c])
       /\ \A c \in DOMAIN cars' :
            cars'[c].intent = "EXIT" => c \notin DOMAIN pm'.assigned_spots]_vars

\* after a step an arrived car has failed to plan twelve times in a row, the
\* last time for a slot: it is an EXIT car with an exit cell as goal and no slot
C30_Witness ==
    /\ op.name = "step"
    /\ \E i \in DOMAIN plan_calls :
         LET c == plan_calls[i].car
         IN /\ plan_calls[i].result = None
            /\ plan_calls[i].query.goal \in parking_cells
            /\ ~cars[c].is_initial
            /\ cars[c].plan_fail_count = 12
            /\ cars[c].intent = "EXIT"
            /\ cars[c].goal \in exit_cells
            /\ c \notin DOMAIN pm.assigned_spots
            /\ c \in sim.active_cars

\* the planner calls of a step that failed for a car with intent EXIT
FailedExitCalls ==
    {i \in DOMAIN plan_calls' :
        /\ plan_calls'[i].result = None
        /\ plan_calls'[i].car \in DOMAIN cars
        /\ cars[plan_calls'[i].car].intent = "EXIT"}

\* plan_fail_count of the car of call i after the increment of that call: a car
\* is planned again in a step only after a failure, so every earlier call of the
\* step for the same car has failed
CountAfterCall(i) ==
    cars[plan_calls'[i].car].plan_fail_count
        + Cardinality({j \in 1..i : plan_calls'[j].car = plan_calls'[i].car})

\* w is the current world after the escalation of one failure of EXIT car c
ExitEscalated(w, c) ==
    /\ w.rt = rt
    /\ w.pm = pm
    /\ w.cars[c].intent = "EXIT"
    /\ w.cars[c].plan_fail_count = cars[c].plan_fail_count + 1
    /\ IF (cars[c].plan_fail_count + 1) % 5 = 0
       THEN w.cars[c].goal \in exit_cells
       ELSE w.cars[c].goal = cars[c].goal

\* C31: after a failed planning attempt for an EXIT car the goal is a member of
\* exit_cells when the plan_fail_count after the increment is a multiple of 5 and
\* is the goal of the attempt otherwise; the escalation itself, in
\* _handle_new_car and in the advance stage, changes neither the reservation
\* table nor free_spots, assigned_spots and occupied_spots
C31_ExitGoalRedrawn ==
    [][/\ \A i \in FailedExitCalls :
            LET c == plan_calls'[i].car
                later == {j \in DOMAIN plan_calls' : j > i /\ plan_calls'[j].car = c}
                goal_after == IF later = {} THEN cars'[c].goal
                              ELSE plan_calls'[CHOOSE j \in later : \A k \in later : j <= k].query.goal
            IN /\ plan_calls'[i].query.goal \in exit_cells
               /\ IF CountAfterCall(i) % 5 = 0
                  THEN goal_after \in exit_cells
                  ELSE goal_after = plan_calls'[i].query.goal
               /\ later = {} => cars'[c].plan_fail_count = CountAfterCall(i)
               /\ cars'[c].intent = "EXIT"
       /\ \A c \in sim.active_cars : \A rank \in Rankings :
            cars[c].intent = "EXIT"
            => /\ ExitEscalated(PlanFailure(World(rank, PersistenceMin), c), c)
               /\ ExitEscalated(NewCarPlanned([w |-> [World(rank, PersistenceMin) EXCEPT
                                                         !.sim.total_failed_plans = @ - 1],
                                               ok |-> FALSE], c), c)]_vars

\* after a step an EXIT car has failed to plan five times in a row and its goal
\* is an exit cell
C31_Witness ==
    /\ op.name = "step"
    /\ \E i \in DOMAIN plan_calls :
         LET c == plan_calls[i].car
         IN /\ plan_calls[i].result = None
            /\ cars[c].intent = "EXIT"
            /\ cars[c].plan_fail_count = 5
            /\ cars[c].goal \in exit_cells
            /\ cars[c].path = <<>>

\* C32: a blocked car is escalated on blocked_count as a failed plan is on
\* plan_fail_count: an EXIT car whose blocked_count becomes a multiple of 5 has
\* its goal drawn anew from exit_cells, a PARK car at a multiple of 3 gives its
\* slot back and has no goal, and a PARK car at 12 or more becomes an EXIT car
\* with an exit cell as goal and no slot
C32_BlockedEscalation ==
    op.name = "blocked" =>
      LET b == op.before
          a == op.after
          n == a.blocked_count
      IN /\ n = b.blocked_count + 1
         /\ a.path = <<>>
         /\ (b.intent = "EXIT" /\ n % 5 = 0)
            => /\ a.goal \in exit_cells
               /\ "choice" \in Range(op.draws)
         /\ (b.intent = "PARK" /\ n % 3 = 0 /\ n < 12)
            => /\ a.goal = None
               /\ a.assigned = None
               /\ b.assigned # None => b.assigned \in op.free_spots
         /\ (b.intent = "PARK" /\ n >= 12)
            => /\ a.intent = "EXIT"
               /\ a.goal \in exit_cells
               /\ a.assigned = None

\* C33: on every snapshot of pairwise distinct positions and every map of
\* intended moves the loop of the conflict resolution ends after at most one
\* iteration per car and one more, every iteration but the last reverts a move,
\* a move once reverted stays reverted, and the map the loop ends with gives
\* each car its intended cell or the cell it stands on
C33_ResolutionTerminates ==
    op.name = "resolve_conflicts" =>
      LET cp == op.current_positions
          im == op.intended_moves
          rounds == op.rounds
          n == Len(rounds)
      IN /\ \A a, b \in DOMAIN cp : cp[a] = cp[b] => a = b
         /\ n >= 1
         /\ n <= Cardinality(DOMAIN cp) + 1
         /\ rounds[1] = im
         /\ rounds[n] = op.active_moves
         /\ \A k \in 1..(n - 1) :
              /\ rounds[k + 1] # rounds[k]
              /\ \A c \in DOMAIN cp :
                   rounds[k][c] # im[c] => rounds[k + 1][c] = rounds[k][c]
         /\ \A k \in 1..n : \A c \in DOMAIN cp : rounds[k][c] \in {im[c], cp[c]}

\* a chain: the loop took three iterations, the second reverted a car that the
\* first had left alone, and a third car kept its move
C33_Witness ==
    /\ op.name = "resolve_conflicts"
    /\ Len(op.rounds) = 3
    /\ \E c \in DOMAIN op.current_positions :
         /\ op.rounds[2][c] = op.intended_moves[c]
         /\ op.rounds[3][c] = op.current_positions[c]
         /\ op.intended_moves[c] # op.current_positions[c]
    /\ \E c \in DOMAIN op.current_positions :
         /\ op.active_moves[c] = op.intended_moves[c]
         /\ op.intended_moves[c] # op.current_positions[c]

\* the places of the draws of kind k in the record of the last step
DrawsOfKind(k) == {i \in DOMAIN op.draws : op.draws[i] = k}

\* C34: within one step() the draws are made in this order: the wake-up draws
\* of the waiting cars, then the obstacle_persistence draws of the advance
\* stage, then the arrival draw, then the shuffle of the entry cells
C34_DrawOrder ==
    op.name = "step" =>
      /\ \A i \in DrawsOfKind("wake") :
           \A j \in DrawsOfKind("persistence") \cup DrawsOfKind("arrival")
                      \cup DrawsOfKind("shuffle") : i < j
      /\ \A i \in DrawsOfKind("persistence") :
           \A j \in DrawsOfKind("arrival") \cup DrawsOfKind("shuffle") : i < j
      /\ \A i \in DrawsOfKind("arrival") : \A j \in DrawsOfKind("shuffle") : i < j

\* the cars that arrived with intent PARK and have intent EXIT now
ConvertedCars == {c \in DOMAIN cars : ~cars[c].is_initial /\ cars[c].intent = "EXIT"}

\* C35: in every step the intent of a car stays as it is or goes from PARK to
\* EXIT; an initial parked car (no intent) stays out of the active set, on its
\* slot; a car with intent EXIT, converted or not, is never counted as parked
\* and never holds or occupies a slot: it is active until it has exited
C35_IntentOnlyToExit ==
    [][/\ \A c \in DOMAIN cars :
            /\ c \in DOMAIN cars'
            /\ \/ cars'[c].intent = cars[c].intent
               \/ cars[c].intent = "PARK" /\ cars'[c].intent = "EXIT"
            /\ cars[c].intent = "NONE"
               => /\ c \notin sim.active_cars
                  /\ c \notin sim'.active_cars
                  /\ sim'.car_positions[c] = sim.car_positions[c]
                  /\ cars'[c].path = <<>>
            /\ cars[c].intent = "EXIT"
               => /\ c \notin DOMAIN pm'.assigned_spots
                  /\ \/ c \in sim'.active_cars
                     \/ c \in sim'.exited_car_ids
                  /\ (c \in sim.active_cars /\ c \notin sim'.active_cars)
                     => /\ sim'.total_parked = sim.total_parked + Cardinality(ReachedSlot)
                        /\ sim'.car_positions[c] \in exit_cells
                        /\ sim'.car_positions[c] \notin pm'.occupied_spots
                        /\ c \in sim'.cars_pending_removal
       /\ \A c \in SpawnedCars : cars'[c].intent = "PARK"]_vars

\* a car that arrived to park, gave up after twelve failed plans and became
\* an EXIT car has driven to the exit and is gone, past a car parked from the start
C35_Witness ==
    \E c \in ConvertedCars :
        /\ c \in sim.exited_car_ids
        /\ c \notin sim.active_cars
        /\ \E d \in DOMAIN cars : cars[d].intent = "NONE" /\ d \in DOMAIN sim.car_positions

(* The snapshot has no two cars on one cell, exits included *)

\* the cars that stand on cell e after the step and did not stand on it before
EnteredCell(e) ==
    {c \in DOMAIN sim'.car_positions :
        /\ sim'.car_positions[c] = e
        /\ (c \in DOMAIN sim.car_positions => sim.car_positions[c] # e)}

\* C36: after every step() the positions of the snapshot are pairwise distinct,
\* EXIT cells included; a car that was pending removal before the step is not in
\* the snapshot after it, so that no car of the snapshot stands where it stood
\* unless that car entered the cell in this step; and at most one car enters any
\* one EXIT cell in a step
C36_SnapshotDistinct ==
    [][/\ \A a, b \in DOMAIN sim'.car_positions :
            a # b => sim'.car_positions[a] # sim'.car_positions[b]
       /\ \A c \in sim.cars_pending_removal :
            /\ c \notin DOMAIN sim'.car_positions
            /\ c \notin sim'.cars_pending_removal
            /\ \A d \in DOMAIN sim'.car_positions :
                 sim'.car_positions[d] = sim.car_positions[c] => d \in EnteredCell(sim.car_positions[c])
       /\ \A e \in exit_cells : Cardinality(EnteredCell(e)) <= 1
       /\ \A c \in sim'.cars_pending_removal :
            /\ c \in DOMAIN sim'.car_positions
            /\ is_exit_cell(sim'.car_positions[c])]_vars

\* in the last step a car drove onto the EXIT cell on which, before the step,
\* an exited car was still shown
C36_Witness ==
    /\ op.name = "step"
    /\ \E a \in DOMAIN prev_positions, b \in DOMAIN sim.car_positions :
         /\ a \notin DOMAIN sim.car_positions
         /\ is_exit_cell(prev_positions[a])
         /\ sim.car_positions[b] = prev_positions[a]
         /\ b \in DOMAIN prev_positions
         /\ prev_positions[b] # sim.car_positions[b]

(* A car that holds a plan is on it *)

\* the active cars that hold a path
PlanHolders == {c \in sim.active_cars : cars[c].path # <<>>}

\* C37: after every step(), the position of every active car equals its entry in
\* the snapshot, and if its path is not empty the path has the entry
\* (position, current time) and ends on the cell that is the car's goal
C37_CarOnItsPlan ==
    op.name = "step" =>
        \A c \in sim.active_cars :
            /\ c \in DOMAIN sim.car_positions
            /\ cars[c].position = sim.car_positions[c]
            /\ c \in PlanHolders =>
                 LET p == cars[c].path
                     pos == cars[c].position
                 IN /\ \E i \in 1..Len(p) : p[i] = <<pos[1], pos[2], sim.time>>
                    /\ cars[c].goal = <<p[Len(p)][1], p[Len(p)][2]>>

\* after the last step a car that moved in it stands in the middle of its
\* path, and another active car holds no path
C37_Witness ==
    /\ op.name = "step"
    /\ \E c \in PlanHolders :
         /\ c \in DOMAIN prev_positions
         /\ prev_positions[c] # sim.car_positions[c]
         /\ Len(cars[c].path) >= 3
         /\ cars[c].path[1][3] < sim.time
         /\ cars[c].path[Len(cars[c].path)][3] > sim.time
    /\ \E d \in sim.active_cars : d \notin PlanHolders

(* The reservation table holds the paths of the active cars and nothing else *)

\* C38: after every step(), the vertex reservations are the vertices of the
\* paths of the active cars and the edge reservations are their edges, no more
\* and no fewer, and the paths of two active cars share no vertex and no edge;
\* so both sets are empty when no active car holds a path
C38_TableIsThePaths ==
    op.name = "step" =>
        /\ rt.vertex_reservations =
              UNION {PathVertices(cars[c].path) : c \in sim.active_cars}
        /\ rt.edge_reservations =
              UNION {PathEdges(cars[c].path) : c \in sim.active_cars}
        /\ \A a, b \in sim.active_cars :
              a # b => /\ PathVertices(cars[a].path) \cap PathVertices(cars[b].path) = {}
                       /\ PathEdges(cars[a].path) \cap PathEdges(cars[b].path) = {}
        /\ \A c \in (DOMAIN cars) \ sim.active_cars : cars[c].path = <<>>

\* after the last step two active cars hold paths, and a car that held a path
\* before has parked or exited
C38_Witness ==
    /\ op.name = "step"
    /\ \E a, b \in PlanHolders : a # b
    /\ \E c \in DOMAIN prev_positions :
         /\ c \notin sim.active_cars
         /\ prev_positions[c] # (IF c \in DOMAIN sim.car_positions
                                 THEN sim.car_positions[c] ELSE None)
         /\ \/ c \in sim.exited_car_ids
            \/ (c \in DOMAIN sim.car_positions /\ sim.car_positions[c] \in pm.occupied_spots)
    /\ rt.edge_reservations # {}

(* The parking statistics of the arriving cars *)

\* the arriving cars a step parks
NewlyParkedArrivals == {c \in ReachedSlot : ~cars[c].is_initial}

\* the sum over the cars of S of the ticks from spawn to the step that parks them
RECURSIVE StepsToPark(_)
StepsToPark(S) ==
    IF S = {} THEN 0
    ELSE LET c == CHOOSE d \in S : TRUE
         IN (sim.time - cars[c].spawn_time) + StepsToPark(S \ {c})

\* C39: every step() adds to arriving_cars_parked_count the number of arriving
\* cars it parks and to sum_steps_to_park one term (time - spawn_time) for each of
\* them, whether the car moved onto its slot or finished its path standing on it;
\* so the count equals the number of arriving cars that have parked
C39_ParkedArrivalsCounted ==
    [][/\ sim'.arriving_cars_parked_count =
            sim.arriving_cars_parked_count + Cardinality(NewlyParkedArrivals)
       /\ sim'.sum_steps_to_park =
            sim.sum_steps_to_park + StepsToPark(NewlyParkedArrivals)
       /\ sim'.arriving_cars_parked_count = Cardinality(ParkedArrivals')]_vars

(* A full lot with arrivals still to come *)

\* the state the claim is about: nobody drives, no slot is free, and the arrival
\* stage has not created all its cars
LotFull ==
    /\ sim.active_cars = {}
    /\ pm.free_spots = {}
    /\ sim.arriving_cars_created < config.max_arriving_cars
    /\ config.arrival_lambda > 0

\* a step() that changes the time counter and nothing else of the program's state
OnlyTimePasses ==
    /\ sim' = [sim EXCEPT !.time = @ + 1]
    /\ pm' = pm
    /\ rt' = rt
    /\ cars' = cars
    /\ config' = config
    /\ plan_calls' = <<>>

\* a step() that changes the time counter, takes the cars pending removal out of
\* the snapshot and changes nothing else
OnlyTimeAndCleanup ==
    /\ sim' = [sim EXCEPT !.time = @ + 1,
                          !.car_positions =
                              [c \in (DOMAIN @) \ sim.cars_pending_removal |-> @[c]],
                          !.cars_pending_removal = {}]
    /\ pm' = pm
    /\ rt' = rt
    /\ cars' = cars
    /\ config' = config
    /\ plan_calls' = <<>>

\* C40 as the specification states it: from a full lot with arrivals still to
\* come, a step() changes the time counter only, the lot stays full and run()
\* does not return
C40_OnlyTimeChanges ==
    [][LotFull => (OnlyTimePasses /\ LotFull' /\ op'.name # "run")]_vars

\* C40: from a full lot with arrivals still to come, a step() changes the time
\* counter, removes the exited cars still shown from the snapshot (which happens
\* in the first such step only) and changes nothing else: no car is created, no
\* planner is called, the lot stays full and run() does not return
C40_FullLotNeverEnds ==
    [][LotFull => /\ OnlyTimeAndCleanup
                  /\ LotFull'
                  /\ sim'.cars_pending_removal = {}
                  /\ op'.name # "run"
                  /\ (sim.cars_pending_removal = {} => OnlyTimePasses)]_vars

\* the last step of run() found the lot full and changed nothing but the time:
\* the initial cars have left and are out of the snapshot, the arriving cars have
\* parked on their slots, and one more car is still to come
C40_Witness ==
    /\ LotFull
    /\ op.name = "step"
    /\ sim.cars_pending_removal = {}
    /\ prev_positions = sim.car_positions
    /\ plan_calls = <<>>
    /\ sim.arriving_cars_parked_count = sim.arriving_cars_created
    /\ sim.arriving_cars_created > 0
    /\ Cardinality(sim.exited_car_ids) = config.initial_active_cars
    /\ sim.exited_car_ids # {}

====
